---- MODULE Spec2Model ----
(***************************************************************************)
(* Ephemeral-service lifecycle of Bob-the-Builder: the services table, the *)
(* messages and service_records tables, the BullMQ cleanup queue and its   *)
(* worker, the lifecycle controller (createService / renewService), the    *)
(* cleanup scheduler (scheduleCleanup) and the access gate                 *)
(* (validateService) in front of the message and generated-record          *)
(* handlers.                                                               *)
(*                                                                         *)
(* Time is a discrete clock `now`; a ttl is a number of clock ticks.  Every *)
(* `await` of the source is a step boundary: the store or queue call takes *)
(* effect in one step and the code after it runs in a later one, so the    *)
(* worker, a lifecycle call and a gated request interleave as they do in   *)
(* the running system.                                                     *)
(*                                                                         *)
(* One client and one service id are modelled: at most one HTTP request (a *)
(* lifecycle call or a gated request) is in flight at a time, concurrently *)
(* with the worker and the clock.                                          *)
(*                                                                         *)
(* The delayed-job facility is modelled by its interface: a set of pending *)
(* jobs, getJob by id, remove by id, add with a delay (an add whose custom *)
(* jobId is already present is ignored by the queue), and a runner that    *)
(* hands a due job to the worker exactly once.                             *)
(***************************************************************************)
EXTENDS Integers, FiniteSets, Sequences, TLC

\* ---------------------------------------------------------------- bounds
MaxTime == 3
MaxRows == 1
\* The rate limiter on its own: the last instant of its clock (ms) and the
\* most requests one key sends within one window.
LimiterMaxTime == 3000
LimiterMaxBurst == 3
\* The generated CRUD handlers on their own: the records created.
CrudMaxRows == 2

\* The ids the services table hands out (SERIAL), and the ttls requested.
\* One tick of the clock is one minute: a ttlHours of n / 60 is n ticks.
ServiceIds == {1}
Ttls == {1, 2}

\* The bounds of ttlHours, 1 / 60 and 48, in minutes.
MinTtlMinutes == 1
MaxTtlMinutes == 2880

\* The access tokens createService draws (randomBytes(24) in hex), and a
\* token no service has.
AccessTokens == {<<"a", "1">>}
WrongToken == <<"f", "f">>

\* ------------------------------------------------------------- variables
VARIABLES
    now,            \* Date.now()
    services,       \* services table: id -> [expiresAt, status, accessToken]
    messages,       \* messages table: rows [id, sid]
    records,        \* service_records table: rows [id, sid]
    msgSeq,         \* messages.id SERIAL
    recSeq,         \* service_records.id SERIAL
    jobs,           \* pending jobs of the 'service-cleanup' queue
    retained,       \* job ids the runner keeps as failed (removeOnFail)
    op,             \* the lifecycle request in flight (create / renew)
    wk,             \* the cleanup worker
    req,            \* the gated request in flight (message / record)
    failedCleanups, \* ids whose cleanup entered the catch block (history)
    tokenCall,      \* one call of requireServiceToken: its inputs and answer
    limiter,        \* the arguments createRateLimiter was called with
    buckets,        \* the rate limiter's Map: entries [key, count, resetAt]
    windows,        \* per key, the window the requests fall in (history)
    limited,        \* the rate limiter's answer to the last request
    payloadCall,    \* one call of validatePayload: its inputs and result
    crud            \* the generated CRUD request in flight and its response

\* The variables of the middleware and handlers that are exercised on their
\* own, outside the lifecycle of a service.
sideVars == <<tokenCall, limiter, buckets, windows, limited, payloadCall, crud>>

\* The variables of the lifecycle of a service and of its requests.
lifecycleVars ==
    <<now, services, messages, records, msgSeq, recSeq, jobs, retained,
      op, wk, req, failedCleanups>>

vars == <<now, services, messages, records, msgSeq, recSeq, jobs, retained,
          op, wk, req, failedCleanups, sideVars>>

\* ----------------------------------------------- path segment and Number()
\* A :serviceId path segment is a sequence of characters.
Digits == {"0", "1", "2", "3", "4", "5", "6", "7", "8", "9"}

DigitVal(c) ==
    CASE c = "0" -> 0 [] c = "1" -> 1 [] c = "2" -> 2 [] c = "3" -> 3
      [] c = "4" -> 4 [] c = "5" -> 5 [] c = "6" -> 6 [] c = "7" -> 7
      [] c = "8" -> 8 [] c = "9" -> 9

AllDigits(str) == \A i \in 1..Len(str) : str[i] \in Digits

\* Number(str) is not NaN: an unsigned decimal literal, digits with at most
\* one "." and at least one digit (the part of the StringNumericLiteral
\* grammar the inputs below exercise).
IsNumeric(str) ==
    /\ \E i \in 1..Len(str) : str[i] \in Digits
    /\ \A i \in 1..Len(str) : str[i] \in Digits \cup {"."}
    /\ Cardinality({i \in 1..Len(str) : str[i] = "."}) <= 1

\* The value PostgreSQL reads for `id = $1`: the text must be an integer.
RECURSIVE ToInt(_)
ToInt(str) ==
    IF str = <<>> THEN 0
    ELSE 10 * ToInt(SubSeq(str, 1, Len(str) - 1)) + DigitVal(str[Len(str)])

IntCastOk(str) == Len(str) > 0 /\ AllDigits(str)

\* The decimal numeral of a service id (String(serviceId)).
RECURSIVE ToStr(_)
ToStr(n) ==
    LET d == <<"0", "1", "2", "3", "4", "5", "6", "7", "8", "9">>
    IN IF n < 10 THEN <<d[n + 1]>> ELSE ToStr(n \div 10) \o <<d[(n % 10) + 1]>>

\* The segments requests are made with: every id that may exist, one that
\* never does, and malformed ones.
IdParams ==
    {ToStr(i) : i \in ServiceIds \cup {Cardinality(ServiceIds) + 1}}
        \cup {<<>>, <<"a", "b", "c">>, <<"1", ".", "5">>}

\* ------------------------------------------------------- string helpers
\* A string is a sequence of characters; an optional string value (a header,
\* a query parameter, a column) is absent, a string, or an array of strings.
Null == [kind |-> "null", str |-> <<>>]
Some(str) == [kind |-> "string", str |-> str]
Many == [kind |-> "array", str |-> <<>>]

\* JavaScript truthiness of an optional string: present and not empty.
Truthy(v) == v.kind = "string" /\ v.str # <<>>

WhiteSpace == {" ", "\t"}

RECURSIVE TrimStart(_)
TrimStart(str) ==
    IF str # <<>> /\ Head(str) \in WhiteSpace THEN TrimStart(Tail(str)) ELSE str

RECURSIVE TrimEnd(_)
TrimEnd(str) ==
    IF str # <<>> /\ str[Len(str)] \in WhiteSpace
    THEN TrimEnd(SubSeq(str, 1, Len(str) - 1))
    ELSE str

\* String.prototype.trim
Trim(str) == TrimEnd(TrimStart(str))

UpperCase ==
    <<"A", "B", "C", "D", "E", "F", "G", "H", "I", "J", "K", "L", "M",
      "N", "O", "P", "Q", "R", "S", "T", "U", "V", "W", "X", "Y", "Z">>
LowerCase ==
    <<"a", "b", "c", "d", "e", "f", "g", "h", "i", "j", "k", "l", "m",
      "n", "o", "p", "q", "r", "s", "t", "u", "v", "w", "x", "y", "z">>

\* String.prototype.toLowerCase
toLowerCase(str) ==
    [i \in 1..Len(str) |->
        IF \E k \in 1..Len(UpperCase) : UpperCase[k] = str[i]
        THEN LowerCase[CHOOSE k \in 1..Len(UpperCase) : UpperCase[k] = str[i]]
        ELSE str[i]]

\* String.prototype.split(" "): the pieces between single spaces.
RECURSIVE split(_)
split(str) ==
    IF \E i \in 1..Len(str) : str[i] = " "
    THEN LET i == CHOOSE k \in 1..Len(str) :
                      str[k] = " " /\ \A m \in 1..(k - 1) : str[m] # " "
         IN <<SubSeq(str, 1, i - 1)>> \o split(SubSeq(str, i + 1, Len(str)))
    ELSE <<str>>

\* ------------------------------------------------------------- token gate
Bearer == <<"b", "e", "a", "r", "e", "r">>

\* getBearerToken: the second piece of "<scheme> <token>" when the scheme is
\* bearer in any letter case, else null.
getBearerToken(authorization) ==
    IF ~Truthy(authorization) THEN Null
    ELSE LET parts == split(authorization.str)
             scheme == parts[1]
             token == IF Len(parts) >= 2 THEN parts[2] ELSE <<>>
         IN IF toLowerCase(scheme) # Bearer \/ token = <<>>
            THEN Null
            ELSE Some(Trim(token))

\* The three places of a request a token is read from.
headerToken(tokens) ==
    IF tokens.header.kind = "string" THEN Some(Trim(tokens.header.str))
    ELSE Null

queryToken(tokens) ==
    IF tokens.query.kind = "string" THEN Some(Trim(tokens.query.str))
    ELSE Null

bearerToken(tokens) == getBearerToken(tokens.authorization)

\* providedToken of requireServiceToken: headerToken || queryToken ||
\* bearerToken, the first truthy one in that order.
providedToken(tokens) ==
    IF Truthy(headerToken(tokens)) THEN headerToken(tokens)
    ELSE IF Truthy(queryToken(tokens)) THEN queryToken(tokens)
    ELSE bearerToken(tokens)

\* requireServiceToken letting every supplied token pass.
requireServiceTokenAnyToken(expectedToken, tokens) ==
    IF ~Truthy(expectedToken)
    THEN [code |-> 403, next |-> FALSE, provided |-> Null]
    ELSE LET provided == providedToken(tokens)
         IN IF ~Truthy(provided)
            THEN [code |-> 401, next |-> FALSE, provided |-> provided]
            ELSE [code |-> 0, next |-> TRUE, provided |-> provided]

\* requireServiceToken: the answer for the token attached by the access
\* gate (expectedToken) and the three places of the request (tokens).
requireServiceToken(expectedToken, tokens) ==
    IF ~Truthy(expectedToken)
    THEN [code |-> 403, next |-> FALSE, provided |-> Null]
    ELSE LET provided == providedToken(tokens)
         IN IF ~Truthy(provided) \/ provided.str # expectedToken.str
            THEN [code |-> 401, next |-> FALSE, provided |-> provided]
            ELSE [code |-> 0, next |-> TRUE, provided |-> provided]

\* ------------------------------------------------------------ access gate
\* validateService with the expiry comparison reversed.
validateServiceReversed(p, svcs, t, dbOk) ==
    IF p = <<>> \/ ~IsNumeric(p)
    THEN [code |-> 400, next |-> FALSE, attached |-> 0]
    ELSE IF ~dbOk \/ ~IntCastOk(p)
    THEN [code |-> 500, next |-> FALSE, attached |-> 0]
    ELSE IF ToInt(p) \notin DOMAIN svcs
    THEN [code |-> 404, next |-> FALSE, attached |-> 0]
    ELSE LET service == svcs[ToInt(p)]
             isExpired == service.expiresAt > t
             isDestroyed == service.status = "DESTROYED"
         IN IF isExpired \/ isDestroyed
            THEN [code |-> 410, next |-> FALSE, attached |-> 0]
            ELSE [code |-> 0, next |-> TRUE, attached |-> ToInt(p)]

\* validateService rejecting destroyed services only.
validateServiceStatusOnly(p, svcs, t, dbOk) ==
    IF p = <<>> \/ ~IsNumeric(p)
    THEN [code |-> 400, next |-> FALSE, attached |-> 0]
    ELSE IF ~dbOk \/ ~IntCastOk(p)
    THEN [code |-> 500, next |-> FALSE, attached |-> 0]
    ELSE IF ToInt(p) \notin DOMAIN svcs
    THEN [code |-> 404, next |-> FALSE, attached |-> 0]
    ELSE LET service == svcs[ToInt(p)]
             isDestroyed == service.status = "DESTROYED"
         IN IF isDestroyed
            THEN [code |-> 410, next |-> FALSE, attached |-> 0]
            ELSE [code |-> 0, next |-> TRUE, attached |-> ToInt(p)]

\* validateService whose catch block calls next(): a failing store lookup
\* lets the request through with the service named by the path attached.
validateServiceFailOpen(p, svcs, t, dbOk) ==
    IF p = <<>> \/ ~IsNumeric(p)
    THEN [code |-> 400, next |-> FALSE, attached |-> 0]
    ELSE IF ~IntCastOk(p)
    THEN [code |-> 500, next |-> FALSE, attached |-> 0]
    ELSE IF ToInt(p) \notin DOMAIN svcs
    THEN [code |-> 404, next |-> FALSE, attached |-> 0]
    ELSE LET service == svcs[ToInt(p)]
             isExpired == service.expiresAt < t
             isDestroyed == service.status = "DESTROYED"
         IN IF dbOk /\ (isExpired \/ isDestroyed)
            THEN [code |-> 410, next |-> FALSE, attached |-> 0]
            ELSE [code |-> 0, next |-> TRUE, attached |-> ToInt(p)]

\* validateService: the answer for path segment p when the clock reads t,
\* against the services table svcs; dbOk = FALSE is a failing store lookup.
validateService(p, svcs, t, dbOk) ==
    IF p = <<>> \/ ~IsNumeric(p)
    THEN [code |-> 400, next |-> FALSE, attached |-> 0]
    ELSE IF ~dbOk \/ ~IntCastOk(p)
    THEN [code |-> 500, next |-> FALSE, attached |-> 0]
    ELSE IF ToInt(p) \notin DOMAIN svcs
    THEN [code |-> 404, next |-> FALSE, attached |-> 0]
    ELSE LET service == svcs[ToInt(p)]
             isExpired == service.expiresAt < t
             isDestroyed == service.status = "DESTROYED"
         IN IF isExpired \/ isDestroyed
            THEN [code |-> 410, next |-> FALSE, attached |-> 0]
            ELSE [code |-> 0, next |-> TRUE, attached |-> ToInt(p)]

\* ---------------------------------------------------------------- routing
\* A request path is the sequence of its segments.
ServicesSeg == <<"s", "e", "r", "v", "i", "c", "e", "s">>
GeneratedSeg == <<"g", "e", "n", "e", "r", "a", "t", "e", "d">>
MessageSeg == <<"m", "e", "s", "s", "a", "g", "e">>
RecordsSeg == <<"r", "e", "c", "o", "r", "d", "s">>
HealthSeg == <<"h", "e", "a", "l", "t", "h">>
MetricsSeg == <<"m", "e", "t", "r", "i", "c", "s">>

\* The mounts and routes of the application in the order app registers
\* them: app.use(prefix [+ '/:serviceId'], router) matches every path that
\* starts with the prefix (and has a segment for the parameter), app.get
\* matches the exact path.
Mounts ==
    <<[use |-> TRUE, prefix |-> <<ServicesSeg>>, param |-> FALSE,
       router |-> "services"],
      [use |-> TRUE, prefix |-> <<GeneratedSeg>>, param |-> TRUE,
       router |-> "generated"],
      [use |-> TRUE, prefix |-> <<>>, param |-> TRUE, router |-> "message"],
      [use |-> FALSE, prefix |-> <<>>, param |-> FALSE, router |-> "root"],
      [use |-> FALSE, prefix |-> <<HealthSeg>>, param |-> FALSE,
       router |-> "health"],
      [use |-> FALSE, prefix |-> <<MetricsSeg>>, param |-> FALSE,
       router |-> "metrics"]>>

Matches(m, path) ==
    IF m.use
    THEN /\ Len(path) >= Len(m.prefix) + (IF m.param THEN 1 ELSE 0)
         /\ SubSeq(path, 1, Len(m.prefix)) = m.prefix
    ELSE path = m.prefix

\* The first mount or route that takes the request, and the :serviceId
\* segment it binds.  (For the requests modelled, the router that takes the
\* request answers it: its access gate rejects it or one of its handlers
\* matches, so no request falls through to a later mount.)
Route(path) ==
    IF \E i \in 1..Len(Mounts) : Matches(Mounts[i], path)
    THEN LET i == CHOOSE k \in 1..Len(Mounts) :
                      /\ Matches(Mounts[k], path)
                      /\ \A m \in 1..(k - 1) : ~Matches(Mounts[m], path)
             mount == Mounts[i]
         IN [router |-> mount.router,
             serviceId |-> IF mount.param THEN path[Len(mount.prefix) + 1]
                           ELSE <<>>]
    ELSE [router |-> "none", serviceId |-> <<>>]

\* The generated router without its token gate.
ChainWithoutToken(router) ==
    IF router \in {"generated", "message"} THEN <<"validateService">>
    ELSE <<>>

\* Both routers behind the token gate.
ChainTokenEverywhere(router) ==
    IF router \in {"generated", "message"}
    THEN <<"validateService", "requireServiceToken">>
    ELSE <<>>

\* The middleware each router puts in front of its handlers (router.use).
Chain(router) ==
    IF router = "generated" THEN <<"validateService", "requireServiceToken">>
    ELSE IF router = "message" THEN <<"validateService">>
    ELSE <<>>

\* ---------------------------------------------------------- cleanup queue
\* One job id for every service.
JobIdShared(sid) == <<"c", "l", "e", "a", "n", "u", "p">>

\* `cleanup-${serviceKey}`, serviceKey = String(serviceId)
JobId(sid) == <<"c", "l", "e", "a", "n", "u", "p", "-">> \o ToStr(sid)

getJob(q, jobId) == {j \in q : j.jobId = jobId}

\* Removing a job that has fired in the meantime removes nothing.
remove(q, jobId) == {j \in q : j.jobId # jobId}

add(q, sid, delayMs, t) ==
    IF getJob(q, JobId(sid)) # {} THEN q
    ELSE q \cup {[jobId |-> JobId(sid), sid |-> sid, fireAt |-> t + delayMs]}

\* ------------------------------------------------------- cleanup executor
\* DeleteRows with the WHERE comparison negated.
DeleteRowsOthers(rows, sid) == {r \in rows : r.sid = sid}

DeleteRows(rows, sid) == {r \in rows : r.sid # sid}

\* UPDATE services SET status = 'DESTROYED', without the WHERE clause.
MarkDestroyedEvery(svcs, sid) ==
    [s \in DOMAIN svcs |-> [svcs[s] EXCEPT !.status = "DESTROYED"]]

MarkDestroyed(svcs, sid) ==
    [i \in DOMAIN svcs |->
        IF i = sid THEN [svcs[i] EXCEPT !.status = "DESTROYED"] ELSE svcs[i]]

\* The three statements of the job handler run to completion on a store.
cleanupWorker(store, sid) ==
    [services |-> MarkDestroyed(store.services, sid),
     messages |-> DeleteRows(store.messages, sid),
     records |-> DeleteRows(store.records, sid)]

Store == [services |-> services, messages |-> messages, records |-> records]

\* ------------------------------------------------------------------ Init
NoBody == [name |-> <<>>, ttlHours |-> [kind |-> "undefined", minutes |-> 0]]
OpIdle ==
    [kind |-> "none", pc |-> "idle", sid |-> 0, delay |-> 0,
     existingJob |-> FALSE, code |-> 0, body |-> NoBody]
WkIdle == [pc |-> "idle", sid |-> 0, err |-> FALSE]
NoTokens == [header |-> Null, authorization |-> Null, query |-> Null]
ReqIdle ==
    [pc |-> "idle", kind |-> "none", router |-> "none", param |-> <<>>,
     tokens |-> NoTokens, passed |-> <<>>, attached |-> 0, storeOk |-> TRUE,
     code |-> 0]

\* The tables empty, the queue empty, nothing in flight.
LifecycleInit ==
    /\ now = 0
    /\ services = <<>>
    /\ messages = {}
    /\ records = {}
    /\ msgSeq = 0
    /\ recSeq = 0
    /\ jobs = {}
    /\ retained = {}
    /\ op = OpIdle
    /\ wk = WkIdle
    /\ req = ReqIdle
    /\ failedCleanups = {}

NoCall == [pc |-> "none"]
TokenInit == tokenCall = NoCall
LimiterInit ==
    /\ limiter = NoCall
    /\ buckets = {}
    /\ windows = {}
    /\ limited = NoCall
PayloadInit == payloadCall = NoCall
CrudInit == crud = NoCall

Init ==
    /\ LifecycleInit
    /\ TokenInit
    /\ LimiterInit
    /\ PayloadInit
    /\ CrudInit

\* ----------------------------------------------------------------- clock
Tick ==
    /\ now < MaxTime
    /\ now' = now + 1
    /\ UNCHANGED <<services, messages, records, msgSeq, recSeq, jobs,
                   retained, op, wk, req, failedCleanups>>
    /\ UNCHANGED sideVars

\* ------------------------------------------------- lifecycle controller
\* The JavaScript values sent as ttlHours: a number, a string that reads as
\* a number, or nothing; `minutes` is the value in sixtieths.
Hours(minutes) == [kind |-> "number", minutes |-> minutes]
HoursText(minutes) == [kind |-> "string", minutes |-> minutes]
NoHours == [kind |-> "undefined", minutes |-> 0]

\* !ttlHours
Falsy(ttlHours) ==
    ttlHours.kind = "undefined" \/ (ttlHours.kind = "number" /\ ttlHours.minutes = 0)

\* createServiceSchema without its rule for the name.
createServiceSchemaAnyName(body) ==
    /\ body.ttlHours.kind = "number"
    /\ body.ttlHours.minutes >= MinTtlMinutes
    /\ body.ttlHours.minutes <= MaxTtlMinutes

\* createServiceSchema.parse succeeds: name is a string of 3 characters or
\* more, ttlHours a number from 1 / 60 to 48.
createServiceSchema(body) ==
    /\ Len(body.name) >= 3
    /\ body.ttlHours.kind = "number"
    /\ body.ttlHours.minutes >= MinTtlMinutes
    /\ body.ttlHours.minutes <= MaxTtlMinutes

\* The test renewService starts with: !ttlHours || ttlHours < 1 / 60 ||
\* ttlHours > 48, where `<` and `>` read a string as a number.
renewRejects(ttlHours) ==
    \/ Falsy(ttlHours)
    \/ ttlHours.minutes < MinTtlMinutes
    \/ ttlHours.minutes > MaxTtlMinutes

\* UPDATE services that also writes a new access_token.
UpdateServiceNewToken(svcs, sid, expiresAt) ==
    [i \in DOMAIN svcs |->
        IF i = sid
        THEN [svcs[i] EXCEPT !.expiresAt = expiresAt, !.status = "ACTIVE",
                             !.accessToken = Some(WrongToken)]
        ELSE svcs[i]]

\* UPDATE services that inserts the row it does not find.
UpdateServiceOrInsert(svcs, sid, expiresAt) ==
    IF sid \in DOMAIN svcs
    THEN [svcs EXCEPT ![sid].expiresAt = expiresAt, ![sid].status = "ACTIVE"]
    ELSE Append(svcs, [expiresAt |-> expiresAt, status |-> "ACTIVE",
                       accessToken |-> Some(WrongToken)])

\* UPDATE services SET expires_at = $1, status = 'ACTIVE' WHERE id = $2
UpdateService(svcs, sid, expiresAt) ==
    [i \in DOMAIN svcs |->
        IF i = sid
        THEN [svcs[i] EXCEPT !.expiresAt = expiresAt, !.status = "ACTIVE"]
        ELSE svcs[i]]

\* The bodies sent to POST /services: valid ones, a name of two characters,
\* a ttlHours of 0, one above 48, and one sent as a string.
CreateBodies ==
    {[name |-> <<"a", "b", "c">>, ttlHours |-> Hours(t)] : t \in Ttls}
    \cup {[name |-> <<"a", "b">>, ttlHours |-> Hours(MinTtlMinutes)],
          [name |-> <<"a", "b", "c">>, ttlHours |-> Hours(0)],
          [name |-> <<"a", "b", "c">>, ttlHours |-> Hours(MaxTtlMinutes + 1)],
          [name |-> <<"a", "b", "c">>, ttlHours |-> HoursText(MinTtlMinutes)]}

\* The bodies sent to POST /services/:serviceId/renew.
RenewBodies ==
    {[name |-> <<>>, ttlHours |-> Hours(t)] : t \in Ttls}
    \cup {[name |-> <<>>, ttlHours |-> Hours(0)],
          [name |-> <<>>, ttlHours |-> Hours(MaxTtlMinutes + 1)],
          [name |-> <<>>, ttlHours |-> HoursText(MinTtlMinutes)],
          [name |-> <<>>, ttlHours |-> NoHours]}

\* The ids renewals are asked for: every id that may exist and one that
\* never does.
RenewIds == ServiceIds \cup {Cardinality(ServiceIds) + 1}

\* The response of a lifecycle call that ends before any scheduling.
Answer(kind, sid, body, code) ==
    [kind |-> kind, pc |-> "answered", sid |-> sid, delay |-> 0,
     existingJob |-> FALSE, code |-> code, body |-> body]

\* createService up to the INSERT: 400 for a body the schema rejects, else
\* expiresAt = Date.now() + ttl, ACTIVE, with a fresh access token.
CreateInsert ==
    /\ op.pc = "idle" /\ req.pc = "idle"
    /\ \E body \in CreateBodies, accessToken \in AccessTokens :
         IF ~createServiceSchema(body)
         THEN /\ op' = Answer("create", 0, body, 400)
              /\ UNCHANGED services
         ELSE LET id == Len(services) + 1
              IN /\ id \in ServiceIds
                 /\ services' = Append(services,
                                  [expiresAt |-> now + body.ttlHours.minutes,
                                   status |-> "ACTIVE",
                                   accessToken |-> Some(accessToken)])
                 /\ op' = [kind |-> "create", pc |-> "delay", sid |-> id,
                           delay |-> 0, existingJob |-> FALSE, code |-> 201,
                           body |-> body]
    /\ UNCHANGED <<now, messages, records, msgSeq, recSeq, jobs, retained,
                   wk, req, failedCleanups>>
    /\ UNCHANGED sideVars

\* renewService answering right after its UPDATE, without rescheduling.
RenewUpdateNoReschedule ==
    /\ op.pc = "idle" /\ req.pc = "idle"
    /\ \E sid \in RenewIds, body \in RenewBodies :
         LET updated == UpdateService(services, sid,
                                      now + body.ttlHours.minutes)
         IN IF renewRejects(body.ttlHours)
            THEN /\ op' = Answer("renew", sid, body, 400)
                 /\ UNCHANGED services
            ELSE IF sid \notin DOMAIN updated
            THEN /\ op' = Answer("renew", sid, body, 404)
                 /\ services' = updated
            ELSE /\ services' = updated
                 /\ op' = Answer("renew", sid, body, 200)
    /\ UNCHANGED <<now, messages, records, msgSeq, recSeq, jobs, retained,
                   wk, req, failedCleanups>>
    /\ UNCHANGED sideVars

\* renewService up to the UPDATE ... RETURNING: 400 for a ttlHours its test
\* rejects, 404 when no row matched, else expires_at = Date.now() + ttl and
\* status = 'ACTIVE'.
RenewUpdate ==
    /\ op.pc = "idle" /\ req.pc = "idle"
    /\ \E sid \in RenewIds, body \in RenewBodies :
         LET updated == UpdateService(services, sid,
                                      now + body.ttlHours.minutes)
         IN IF renewRejects(body.ttlHours)
            THEN /\ op' = Answer("renew", sid, body, 400)
                 /\ UNCHANGED services
            ELSE IF sid \notin DOMAIN updated
            THEN /\ op' = Answer("renew", sid, body, 404)
                 /\ services' = updated
            ELSE /\ services' = updated
                 /\ op' = [kind |-> "renew", pc |-> "delay", sid |-> sid,
                           delay |-> 0, existingJob |-> FALSE, code |-> 200,
                           body |-> body]
    /\ UNCHANGED <<now, messages, records, msgSeq, recSeq, jobs, retained,
                   wk, req, failedCleanups>>
    /\ UNCHANGED sideVars

\* The controllers without the `if (delay > 0)` test: scheduleCleanup is
\* called with whatever delay was computed.
ScheduleGetJobAnyDelay ==
    /\ op.pc = "delay"
    /\ LET delay == services[op.sid].expiresAt - now
           existingJob == getJob(jobs, JobId(op.sid)) # {}
       IN op' = [op EXCEPT
                   !.pc = IF existingJob THEN "remove" ELSE "add",
                   !.existingJob = existingJob,
                   !.delay = delay]
    /\ UNCHANGED <<now, services, messages, records, msgSeq, recSeq, jobs,
                   retained, wk, req, failedCleanups>>
    /\ UNCHANGED sideVars

\* Both controllers after the store call: delay = expires_at - Date.now();
\* with delay <= 0 the response is sent, else scheduleCleanup starts with
\* getJob.
ScheduleGetJob ==
    /\ op.pc = "delay"
    /\ LET delay == services[op.sid].expiresAt - now
       IN IF delay > 0
          THEN LET existingJob == getJob(jobs, JobId(op.sid)) # {}
               IN op' = [op EXCEPT
                           !.pc = IF existingJob THEN "remove" ELSE "add",
                           !.existingJob = existingJob,
                           !.delay = delay]
          ELSE op' = [op EXCEPT !.pc = "answered"]
    /\ UNCHANGED <<now, services, messages, records, msgSeq, recSeq, jobs,
                   retained, wk, req, failedCleanups>>
    /\ UNCHANGED sideVars

\* scheduleCleanup: existingJob.remove().
ScheduleRemove ==
    /\ op.pc = "remove"
    /\ jobs' = remove(jobs, JobId(op.sid))
    /\ op' = [op EXCEPT !.pc = "add"]
    /\ UNCHANGED <<now, services, messages, records, msgSeq, recSeq,
                   retained, wk, req, failedCleanups>>
    /\ UNCHANGED sideVars

\* scheduleCleanup: cleanupQueue.add(..., {delay, jobId, ...}); the
\* controller then sends its response.
ScheduleAdd ==
    /\ op.pc = "add"
    /\ jobs' = add(jobs, op.sid, op.delay, now)
    /\ op' = [op EXCEPT !.pc = "answered"]
    /\ UNCHANGED <<now, services, messages, records, msgSeq, recSeq,
                   retained, wk, req, failedCleanups>>
    /\ UNCHANGED sideVars

\* The lifecycle response has been sent; the next request may arrive.
LifecycleEnd ==
    /\ op.pc = "answered"
    /\ op' = OpIdle
    /\ UNCHANGED <<now, services, messages, records, msgSeq, recSeq, jobs,
                   retained, wk, req, failedCleanups>>
    /\ UNCHANGED sideVars

\* ---------------------------------------------------------------- worker
\* The runner hands a due job to the worker.
WorkerPick ==
    /\ wk.pc = "idle"
    /\ \E j \in jobs :
         /\ j.fireAt <= now
         /\ jobs' = jobs \ {j}
         /\ wk' = [pc |-> "delMsgs", sid |-> j.sid, err |-> FALSE]
    /\ UNCHANGED <<now, services, messages, records, msgSeq, recSeq,
                   retained, op, req, failedCleanups>>
    /\ UNCHANGED sideVars

\* A failing query throws into the catch block, which logs and returns.
WorkerCatch ==
    /\ wk' = [wk EXCEPT !.pc = "finish", !.err = TRUE]
    /\ failedCleanups' = failedCleanups \cup {wk.sid}

WorkerDeleteMessages ==
    /\ wk.pc = "delMsgs"
    /\ \E ok \in BOOLEAN :
         IF ok
         THEN /\ messages' = DeleteRows(messages, wk.sid)
              /\ wk' = [wk EXCEPT !.pc = "delRecs"]
              /\ UNCHANGED failedCleanups
         ELSE WorkerCatch /\ UNCHANGED messages
    /\ UNCHANGED <<now, services, records, msgSeq, recSeq, jobs, retained,
                   op, req>>
    /\ UNCHANGED sideVars

WorkerDeleteRecords ==
    /\ wk.pc = "delRecs"
    /\ \E ok \in BOOLEAN :
         IF ok
         THEN /\ records' = DeleteRows(records, wk.sid)
              /\ wk' = [wk EXCEPT !.pc = "setStatus"]
              /\ UNCHANGED failedCleanups
         ELSE WorkerCatch /\ UNCHANGED records
    /\ UNCHANGED <<now, services, messages, msgSeq, recSeq, jobs, retained,
                   op, req>>
    /\ UNCHANGED sideVars

WorkerMarkDestroyed ==
    /\ wk.pc = "setStatus"
    /\ \E ok \in BOOLEAN :
         IF ok
         THEN /\ services' = MarkDestroyed(services, wk.sid)
              /\ wk' = [wk EXCEPT !.pc = "finish"]
              /\ UNCHANGED failedCleanups
         ELSE WorkerCatch /\ UNCHANGED services
    /\ UNCHANGED <<now, messages, records, msgSeq, recSeq, jobs, retained,
                   op, req>>
    /\ UNCHANGED sideVars

\* The handler has returned.  It never throws (the catch block swallows
\* every error), so the runner records the job as completed and, with
\* removeOnComplete, discards it; a job is kept as failed (removeOnFail)
\* only when its handler throws.
WorkerFinish ==
    /\ wk.pc = "finish"
    /\ LET threw == FALSE
       IN retained' = IF threw THEN retained \cup {JobId(wk.sid)} ELSE retained
    /\ wk' = WkIdle
    /\ UNCHANGED <<now, services, messages, records, msgSeq, recSeq, jobs,
                   op, req, failedCleanups>>
    /\ UNCHANGED sideVars

\* ------------------------------------------------------- gated requests
\* The requests a client sends: POST /:serviceId/message without a token,
\* POST /generated/:serviceId/records with or without tokens, GET /health
\* and GET /metrics.
RequestTokens ==
    {NoTokens}
    \cup {[header |-> Null, query |-> Null,
           authorization |-> Some(<<"B", "e", "a", "r", "e", "r", " ">> \o tok)] :
             tok \in AccessTokens}
    \cup {[header |-> Some(WrongToken), query |-> Some(tok),
           authorization |-> Null] : tok \in AccessTokens}

Requests ==
    {[kind |-> "message", path |-> <<p, MessageSeg>>, tokens |-> NoTokens] :
        p \in IdParams}
    \cup {[kind |-> "record", path |-> <<GeneratedSeg, p, RecordsSeg>>,
           tokens |-> t] : p \in IdParams, t \in RequestTokens}
    \cup {[kind |-> "health", path |-> <<HealthSeg>>, tokens |-> NoTokens],
          [kind |-> "metrics", path |-> <<MetricsSeg>>, tokens |-> NoTokens]}

\* One middleware of a chain, run on the request r.
Middleware(name, r) ==
    IF name = "validateService"
    THEN validateService(r.param, services, now, r.storeOk)
    ELSE LET m == requireServiceToken(
                      IF r.attached = 0 THEN Null
                      ELSE services[r.attached].accessToken,
                      r.tokens)
         IN [code |-> m.code, next |-> m.next, attached |-> r.attached]

\* The middleware of a router run in order on the request r: the first one
\* that does not call next() answers the request, and after the last one
\* the matching handler starts.
RECURSIVE RunChain(_, _)
RunChain(chain, r) ==
    IF chain = <<>> THEN [r EXCEPT !.pc = "handler"]
    ELSE LET m == Middleware(Head(chain), r)
             passed == Append(r.passed, Head(chain))
         IN IF m.next
            THEN RunChain(Tail(chain),
                          [r EXCEPT !.passed = passed, !.attached = m.attached])
            ELSE [r EXCEPT !.pc = "answered", !.passed = passed,
                           !.code = m.code]

\* A request enters the application: the first matching router runs its
\* middleware, which answers the request or starts the handler.  A request
\* that reaches a route of the application itself (GET /health, GET
\* /metrics) is answered by that route.
RequestGate ==
    /\ req.pc = "idle" /\ op.pc = "idle"
    /\ \E rq \in Requests, dbOk \in BOOLEAN :
         LET route == Route(rq.path)
             r == [pc |-> "routed", kind |-> rq.kind, router |-> route.router,
                   param |-> route.serviceId, tokens |-> rq.tokens,
                   passed |-> <<>>, attached |-> 0, storeOk |-> dbOk,
                   code |-> 0]
         IN IF route.router \in {"generated", "message"}
            THEN req' = RunChain(Chain(route.router), r)
            ELSE req' = [r EXCEPT !.pc = "answered", !.code = 200]
    /\ UNCHANGED <<now, services, messages, records, msgSeq, recSeq, jobs,
                   retained, op, wk, failedCleanups>>
    /\ UNCHANGED sideVars

\* sendMessage: INSERT INTO messages, answered 201.
SendMessage ==
    /\ req.pc = "handler"
    /\ req.kind = "message"
    /\ msgSeq < MaxRows
    /\ msgSeq' = msgSeq + 1
    /\ messages' = messages \cup {[id |-> msgSeq + 1, sid |-> ToInt(req.param)]}
    /\ req' = [req EXCEPT !.pc = "answered", !.code = 201]
    /\ UNCHANGED <<now, services, records, recSeq, jobs, retained, op, wk,
                   failedCleanups>>
    /\ UNCHANGED sideVars

\* createGeneratedRecord, for a request that passed the token gate with a
\* valid payload: INSERT INTO service_records, answered 201.
CreateGeneratedRecord ==
    /\ req.pc = "handler"
    /\ req.kind = "record"
    /\ recSeq < MaxRows
    /\ recSeq' = recSeq + 1
    /\ records' = records \cup {[id |-> recSeq + 1, sid |-> ToInt(req.param)]}
    /\ req' = [req EXCEPT !.pc = "answered", !.code = 201]
    /\ UNCHANGED <<now, services, messages, msgSeq, jobs, retained, op, wk,
                   failedCleanups>>
    /\ UNCHANGED sideVars

\* The response has been sent; the next request may arrive.
RequestEnd ==
    /\ req.pc = "answered"
    /\ req' = ReqIdle
    /\ UNCHANGED <<now, services, messages, records, msgSeq, recSeq, jobs,
                   retained, op, wk, failedCleanups>>
    /\ UNCHANGED sideVars

\* ------------------------------------------------------------------ Spec
Next ==
    \/ Tick
    \/ CreateInsert
    \/ RenewUpdate
    \/ ScheduleGetJob
    \/ ScheduleRemove
    \/ ScheduleAdd
    \/ LifecycleEnd
    \/ WorkerPick
    \/ WorkerDeleteMessages
    \/ WorkerDeleteRecords
    \/ WorkerMarkDestroyed
    \/ WorkerFinish
    \/ RequestGate
    \/ SendMessage
    \/ CreateGeneratedRecord
    \/ RequestEnd

Spec == Init /\ [][Next]_vars

\* A service that is created and never renewed, with every started request,
\* scheduling call and job run carried through: the runner fires a due job
\* and the event loop resumes every pending await.
NextNoRenew ==
    \/ Tick
    \/ CreateInsert
    \/ ScheduleGetJob
    \/ ScheduleAdd
    \/ LifecycleEnd
    \/ WorkerPick
    \/ WorkerDeleteMessages
    \/ WorkerDeleteRecords
    \/ WorkerMarkDestroyed
    \/ WorkerFinish
    \/ RequestGate
    \/ SendMessage
    \/ CreateGeneratedRecord
    \/ RequestEnd

Fairness ==
    /\ WF_vars(ScheduleGetJob)
    /\ WF_vars(ScheduleAdd)
    /\ WF_vars(LifecycleEnd)
    /\ WF_vars(WorkerPick)
    /\ WF_vars(WorkerDeleteMessages)
    /\ WF_vars(WorkerDeleteRecords)
    /\ WF_vars(WorkerMarkDestroyed)
    /\ WF_vars(WorkerFinish)
    /\ WF_vars(SendMessage)
    /\ WF_vars(CreateGeneratedRecord)
    /\ WF_vars(RequestEnd)

FairSpec == Init /\ [][NextNoRenew]_vars /\ Fairness

TypeOK ==
    /\ now \in 0..MaxTime
    /\ DOMAIN services \subseteq ServiceIds
    /\ wk.pc \in {"idle", "delMsgs", "delRecs", "setStatus", "finish"}

\* ------------------------------------------------- token gate on its own
\* requireServiceToken called once on every combination of a stored token
\* (none, empty, a token) and of the three places of a request.
ExpectedTokens == {Null, Some(<<>>)} \cup {Some(tok) : tok \in AccessTokens}

HeaderValues ==
    {Null, Some(<<>>), Some(WrongToken)} \cup {Some(tok) : tok \in AccessTokens}

QueryValues ==
    {Null, Many, Some(WrongToken)}
        \cup {Some(tok) : tok \in AccessTokens}
        \cup {Some(<<" ">> \o tok \o <<" ">>) : tok \in AccessTokens}

AuthorizationValues ==
    {Null,
     Some(<<"B", "e", "a", "r", "e", "r">>),
     Some(<<"B", "e", "a", "r", "e", "r", " ">> \o WrongToken)}
        \cup {Some(<<"B", "e", "a", "r", "e", "r", " ">> \o tok) :
                 tok \in AccessTokens}
        \cup {Some(<<"b", "e", "a", "r", "e", "r", " ">> \o tok) :
                 tok \in AccessTokens}
        \cup {Some(<<"B", "e", "a", "r", "e", "r", " ", " ">> \o tok) :
                 tok \in AccessTokens}
        \cup {Some(<<"B", "a", "s", "i", "c", " ">> \o tok) :
                 tok \in AccessTokens}

TokenCallInit ==
    /\ LifecycleInit
    /\ LimiterInit
    /\ PayloadInit
    /\ CrudInit
    /\ \E e \in ExpectedTokens, h \in HeaderValues, q \in QueryValues,
          a \in AuthorizationValues :
         tokenCall = [pc |-> "call", expectedToken |-> e,
                      tokens |-> [header |-> h, authorization |-> a,
                                  query |-> q],
                      provided |-> Null, code |-> 0, next |-> FALSE]

RequireServiceTokenCall ==
    /\ tokenCall.pc = "call"
    /\ LET m == requireServiceToken(tokenCall.expectedToken, tokenCall.tokens)
       IN tokenCall' = [tokenCall EXCEPT !.pc = "done", !.code = m.code,
                                         !.next = m.next,
                                         !.provided = m.provided]
    /\ UNCHANGED <<lifecycleVars, limiter, buckets, windows, limited,
                   payloadCall, crud>>

TokenNext == RequireServiceTokenCall

TokenSpec == TokenCallInit /\ [][TokenNext]_vars

\* ----------------------------------------------- rate limiter on its own
\* Math.ceil(x / 1000)
CeilSeconds(x) == -((-x) \div 1000)

\* getClientKey: the x-forwarded-for header (its first value when repeated),
\* else req.ip, else "unknown".
Unknown == <<"u", "n", "k", "n", "o", "w", "n">>

getClientKey(forwarded, ip) ==
    IF Truthy(forwarded) THEN forwarded.str
    ELSE IF Truthy(ip) THEN ip.str
    ELSE Unknown

\* `${getClientKey(req)}:${req.baseUrl || req.path}`
BucketKey(forwarded, ip, baseUrl, path) ==
    getClientKey(forwarded, ip) \o <<":">>
        \o (IF baseUrl # <<>> THEN baseUrl ELSE path)

\* A Map is the set of its entries, one per key.
has(map, key) == \E e \in map : e.key = key
get(map, key) == CHOOSE e \in map : e.key = key
\* A Map.set that clears the map first: one bucket shared by every key.
setAlone(map, key, entry) == {entry}
set(map, key, entry) == {e \in map : e.key # key} \cup {entry}

\* The middleware accepting one request more than maxRequests per window.
rateLimiterOffByOne(cfg, bkts, t, key) ==
    LET bucket == get(bkts, key)
        expired == IF has(bkts, key) THEN t > bucket.resetAt ELSE TRUE
    IN IF expired
       THEN [buckets |-> set(bkts, key, [key |-> key, count |-> 1,
                                         resetAt |-> t + cfg.windowMs]),
             next |-> TRUE, code |-> 0, retryAfter |-> 0]
       ELSE IF bucket.count > cfg.maxRequests
       THEN [buckets |-> bkts, next |-> FALSE, code |-> 429,
             retryAfter |-> CeilSeconds(bucket.resetAt - t)]
       ELSE [buckets |-> set(bkts, key, [bucket EXCEPT !.count = @ + 1]),
             next |-> TRUE, code |-> 0, retryAfter |-> 0]

\* The middleware createRateLimiter(maxRequests, windowMs) returns, run on
\* the bucket map bkts at time t for the bucket key.
rateLimiter(cfg, bkts, t, key) ==
    LET bucket == get(bkts, key)
        expired == IF has(bkts, key) THEN t > bucket.resetAt ELSE TRUE
    IN IF expired
       THEN [buckets |-> set(bkts, key, [key |-> key, count |-> 1,
                                         resetAt |-> t + cfg.windowMs]),
             next |-> TRUE, code |-> 0, retryAfter |-> 0]
       ELSE IF bucket.count >= cfg.maxRequests
       THEN [buckets |-> bkts, next |-> FALSE, code |-> 429,
             retryAfter |-> CeilSeconds(bucket.resetAt - t)]
       ELSE [buckets |-> set(bkts, key, [bucket EXCEPT !.count = @ + 1]),
             next |-> TRUE, code |-> 0, retryAfter |-> 0]

\* The limiters created, the steps of the clock (ms), the clients, and the
\* route the limiter is mounted on (POST /ai/build).
MaxRequestsValues == {1, 2}
WindowMsValues == {1000, 1500}
ClockSteps == {500}
ClientAddresses == {<<"c", "1">>, <<"c", "2">>}
AiBaseUrl == <<"/", "a", "i">>
AiPath == <<"/", "b", "u", "i", "l", "d">>

LimiterCallInit ==
    /\ LifecycleInit
    /\ TokenInit
    /\ PayloadInit
    /\ CrudInit
    /\ \E m \in MaxRequestsValues, w \in WindowMsValues :
         limiter = [pc |-> "created", maxRequests |-> m, windowMs |-> w]
    /\ buckets = {}
    /\ windows = {}
    /\ limited = NoCall

LimiterTick ==
    /\ \E d \in ClockSteps :
         /\ now + d <= LimiterMaxTime
         /\ now' = now + d
    /\ UNCHANGED <<services, messages, records, msgSeq, recSeq, jobs,
                   retained, op, wk, req, failedCleanups>>
    /\ UNCHANGED <<tokenCall, limiter, buckets, windows, limited,
                   payloadCall, crud>>

\* One request through the limiter.  `windows` records, for the key, the
\* window the request falls in: a request that finds no window for its key,
\* or arrives after the window's end (start + windowMs), starts a window;
\* n counts the requests in the window and passed those let through.
RateLimit ==
    /\ \E forwarded \in {Null} \cup {Some(c) : c \in ClientAddresses},
          ip \in {Some(c) : c \in ClientAddresses} :
         LET key == BucketKey(forwarded, ip, AiBaseUrl, AiPath)
             m == rateLimiter(limiter, buckets, now, key)
             fresh == IF has(windows, key)
                      THEN now > get(windows, key).start + limiter.windowMs
                      ELSE TRUE
             window ==
                 IF fresh
                 THEN [key |-> key, start |-> now, n |-> 1,
                       passed |-> IF m.next THEN 1 ELSE 0,
                       index |-> IF has(windows, key)
                                 THEN get(windows, key).index + 1 ELSE 1]
                 ELSE [get(windows, key) EXCEPT
                         !.n = @ + 1,
                         !.passed = IF m.next THEN @ + 1 ELSE @]
         IN /\ IF fresh THEN TRUE
               ELSE get(windows, key).n < LimiterMaxBurst
            /\ buckets' = m.buckets
            /\ windows' = set(windows, key, window)
            /\ limited' = [pc |-> "done", key |-> key, next |-> m.next,
                           code |-> m.code, retryAfter |-> m.retryAfter]
    /\ UNCHANGED <<lifecycleVars, tokenCall, limiter, payloadCall, crud>>

LimiterNext ==
    \/ LimiterTick
    \/ RateLimit

LimiterSpec == LimiterCallInit /\ [][LimiterNext]_vars

\* --------------------------------------------- schema validator on its own
\* A JavaScript value is modelled by its kind; "undefined" is what reading a
\* key the payload does not have gives, "infinity" a number that is not
\* finite.
ValueKinds ==
    {"undefined", "null", "string", "number", "infinity", "boolean", "object",
     "array"}

\* typeof value
typeof(value) ==
    CASE value = "undefined" -> "undefined"
      [] value = "string" -> "string"
      [] value \in {"number", "infinity"} -> "number"
      [] value = "boolean" -> "boolean"
      [] value \in {"null", "object", "array"} -> "object"

\* isValidType with `typeof value === "object"` as its only test of objects.
isValidTypeTypeofOnly(value, type) ==
    IF type = "string" THEN typeof(value) = "string"
    ELSE IF type = "number"
    THEN typeof(value) = "number" /\ value # "infinity"
    ELSE IF type = "boolean" THEN typeof(value) = "boolean"
    ELSE IF type = "object" THEN typeof(value) = "object"
    ELSE FALSE

isValidType(value, type) ==
    IF type = "string" THEN typeof(value) = "string"
    ELSE IF type = "number"
    THEN typeof(value) = "number" /\ value # "infinity"
    ELSE IF type = "boolean" THEN typeof(value) = "boolean"
    ELSE IF type = "object"
    THEN typeof(value) = "object" /\ value # "null" /\ value # "array"
    ELSE FALSE

\* The messages `${field.name} is required` and
\* `${field.name} must be ${field.type}`.
IsRequired(name) == <<name, " is required">>
MustBe(name, type) == <<name, " must be ", type>>

\* validatePayload: the errors of the fields of the resource, in their order.
RECURSIVE validateFields(_, _)
validateFields(fields, payload) ==
    IF fields = <<>> THEN <<>>
    ELSE LET field == Head(fields)
             value == payload[field.name]
             rest == validateFields(Tail(fields), payload)
         IN IF field.required /\ (value = "undefined" \/ value = "null")
            THEN <<IsRequired(field.name)>> \o rest
            ELSE IF value # "undefined" /\ ~isValidType(value, field.type)
            THEN <<MustBe(field.name, field.type)>> \o rest
            ELSE rest

validatePayload(resource, payload) == validateFields(resource.fields, payload)

\* The resources validated: one or two fields of every declared type,
\* required or optional; the payloads: every kind of value under each name.
FieldTypes == {"string", "number", "boolean", "object"}
FieldNames == <<"title", "metadata">>

FieldsNamed(name) ==
    {[name |-> name, type |-> t, required |-> r] :
        t \in FieldTypes, r \in BOOLEAN}

Resources ==
    {[name |-> "record", fields |-> <<f>>] : f \in FieldsNamed(FieldNames[1])}
    \cup {[name |-> "record", fields |-> <<f, g>>] :
             f \in FieldsNamed(FieldNames[1]), g \in FieldsNamed(FieldNames[2])}

Payloads == [{FieldNames[1], FieldNames[2]} -> ValueKinds]

PayloadCallInit ==
    /\ LifecycleInit
    /\ TokenInit
    /\ LimiterInit
    /\ CrudInit
    /\ \E resource \in Resources, payload \in Payloads :
         payloadCall = [pc |-> "call", resource |-> resource,
                        payload |-> payload, errors |-> <<>>]

ValidatePayloadCall ==
    /\ payloadCall.pc = "call"
    /\ payloadCall' =
         [payloadCall EXCEPT
            !.pc = "done",
            !.errors = validatePayload(payloadCall.resource,
                                       payloadCall.payload)]
    /\ UNCHANGED <<lifecycleVars, tokenCall, limiter, buckets, windows,
                   limited, crud>>

PayloadNext == ValidatePayloadCall

PayloadSpec == PayloadCallInit /\ [][PayloadNext]_vars

\* ------------------------------------------ generated CRUD on its own
\* The handlers of the generated router for requests that passed both
\* gates, on two ACTIVE services whose spec_json declares the resources
\* `record` (title: string, required; metadata: object, optional) and `Note`
\* (title: string, required).
\* A JSON value is its kind and its text.
Undefined == [kind |-> "undefined", val |-> <<>>]
Str(chars) == [kind |-> "string", val |-> chars]
Num(chars) == [kind |-> "number", val |-> chars]
Timestamp(t) == [kind |-> "string", val |-> <<"T">> \o ToStr(t)]
Obj(entries) == [kind |-> "object", val |-> entries]
Arr(items) == [kind |-> "array", val |-> items]

\* An object with the entries of f whose value is not undefined (what
\* JSON.stringify keeps of an object, and what a jsonb column returns).
FromEntries(f) == [k \in {n \in DOMAIN f : f[n] # Undefined} |-> f[k]]

\* { ...a, ...b } with the keys of a overriding those of b.
SpreadFirstWins(a, b) ==
    [k \in DOMAIN a \cup DOMAIN b |-> IF k \in DOMAIN a THEN a[k] ELSE b[k]]

\* { ...a, ...b }
Spread(a, b) ==
    [k \in DOMAIN a \cup DOMAIN b |-> IF k \in DOMAIN b THEN b[k] ELSE a[k]]

\* [^a-z0-9]
AlphaNumeric == {LowerCase[i] : i \in 1..Len(LowerCase)} \cup Digits

\* replace(/[^a-z0-9]+/g, "_")
RECURSIVE ReplaceRuns(_)
ReplaceRuns(str) ==
    IF str = <<>> THEN <<>>
    ELSE IF Head(str) \in AlphaNumeric THEN <<Head(str)>> \o ReplaceRuns(Tail(str))
    ELSE IF Len(str) > 1 /\ str[2] \notin AlphaNumeric THEN ReplaceRuns(Tail(str))
    ELSE <<"_">> \o ReplaceRuns(Tail(str))

\* replace(/^_+|_+$/g, "")
RECURSIVE StripUnderscores(_)
StripUnderscores(str) ==
    IF str # <<>> /\ Head(str) = "_" THEN StripUnderscores(Tail(str))
    ELSE IF str # <<>> /\ str[Len(str)] = "_"
    THEN StripUnderscores(SubSeq(str, 1, Len(str) - 1))
    ELSE str

DefaultKey == <<"r", "e", "c", "o", "r", "d", "s">>

normalizeKey(value) ==
    LET base == StripUnderscores(ReplaceRuns(toLowerCase(value)))
    IN IF base = <<>> THEN DefaultKey
       ELSE IF base[Len(base)] = "s" THEN base
       ELSE base \o <<"s">>

\* getParamAsString: the trimmed segment, or null (here the empty string).
getParamAsString(value) == Trim(value)

\* parsePayload without the Array.isArray test.
parsePayloadAnyObject(raw) == {raw.val}

\* parsePayload: the entries of a body that is a JSON object, as a set of
\* at most one payload; null (here the empty set) for any other body.
parsePayload(raw) ==
    IF raw.kind # "object" THEN {} ELSE {raw.val}

\* findResource keeping the first resource set under a key.
findResourceFirstWins(spec, resourceParam) ==
    LET hits == {i \in 1..Len(spec.resources) :
                    normalizeKey(spec.resources[i].name)
                        = normalizeKey(resourceParam)}
    IN IF hits = {} THEN {}
       ELSE {spec.resources[CHOOSE i \in hits : \A j \in hits : i <= j]}

\* findResource: the last declared resource whose key is that of the
\* segment (Map.set overwrites), as a set of at most one resource.
findResource(spec, resourceParam) ==
    LET hits == {i \in 1..Len(spec.resources) :
                    normalizeKey(spec.resources[i].name)
                        = normalizeKey(resourceParam)}
    IN IF hits = {} THEN {}
       ELSE {spec.resources[CHOOSE i \in hits : \A j \in hits : j <= i]}

RecordResource ==
    [name |-> <<"r", "e", "c", "o", "r", "d">>,
     fields |-> <<[name |-> "title", type |-> "string", required |-> TRUE],
                  [name |-> "metadata", type |-> "object",
                   required |-> FALSE]>>]

NoteResource ==
    [name |-> <<"N", "o", "t", "e">>,
     fields |-> <<[name |-> "title", type |-> "string", required |-> TRUE]>>]

\* req.service.spec_json of both services.
SpecJson == [resources |-> <<RecordResource, NoteResource>>]

CrudServiceIds == {1, 2}

\* The :resource segments requested: one that resolves to `record`, one that
\* resolves to `Note`, one that resolves to nothing, and one that is blank.
ResourceParams ==
    {<<"R", "e", "c", "o", "r", "d">>, <<"n", "o", "t", "e", "s">>,
     <<"l", "o", "g", "s">>, <<" ">>}

\* The request bodies: JSON objects without a title, with a title that is a
\* string or a number, and with a key the resources do not declare; and a
\* body that is a JSON array.
Bodies ==
    {Obj(FromEntries([title |-> Undefined])),
     Obj([title |-> Str(<<"x">>)]),
     Obj([title |-> Num(<<"5">>)]),
     Obj([title |-> Str(<<"z">>), id |-> Num(<<"7">>)]),
     Arr(<<>>)}

\* The :id segments requested.
CrudIdParams == {<<"1">>, <<"2">>}

\* payload[field.name] for the fields of the resource.
FieldValues(resource, payload) ==
    [n \in {resource.fields[i].name : i \in 1..Len(resource.fields)} |->
        IF n \in DOMAIN payload THEN payload[n].kind ELSE "undefined"]

\* The representation of a row: { id: row.id, ...row.payload, createdAt:
\* row.created_at, updatedAt: row.updated_at }.
ResponseData(row) ==
    Spread(Spread([id |-> Num(ToStr(row.id))], row.payload),
           [createdAt |-> Timestamp(row.createdAt),
            updatedAt |-> Timestamp(row.updatedAt)])

\* ... WHERE id = $1, whatever the service and the resource.
SelectRecordByIdOnly(rows, sid, key, id) ==
    {row \in rows : row.id = ToInt(id)}

\* ... WHERE service_id = $1 AND resource_name = $2 AND id = $3
SelectRecord(rows, sid, key, id) ==
    {row \in rows :
        row.sid = sid /\ row.resource = key /\ row.id = ToInt(id)}

\* ... WHERE service_id = $1 AND resource_name = $2
SelectRecords(rows, sid, key) ==
    {row \in rows : row.sid = sid /\ row.resource = key}

\* ORDER BY id ASC
RECURSIVE OrderByIdAsc(_)
OrderByIdAsc(rows) ==
    IF rows = {} THEN <<>>
    ELSE LET first == CHOOSE r \in rows : \A o \in rows : o.id >= r.id
         IN <<first>> \o OrderByIdAsc(rows \ {first})

\* ORDER BY id DESC
RECURSIVE OrderByIdDesc(_)
OrderByIdDesc(rows) ==
    IF rows = {} THEN <<>>
    ELSE LET first == CHOOSE r \in rows : \A o \in rows : o.id <= r.id
         IN <<first>> \o OrderByIdDesc(rows \ {first})

\* DELETE FROM service_records WHERE service_id = $1 AND resource_name = $2
DeleteRecordWholePair(rows, sid, key, id) ==
    rows \ SelectRecords(rows, sid, key)

\* DELETE FROM service_records WHERE service_id = $1 AND resource_name = $2
\* AND id = $3
DeleteRecord(rows, sid, key, id) == rows \ SelectRecord(rows, sid, key, id)

CrudIdle == [pc |-> "idle"]

\* The response of a handler to the request rq (`count` is sent by the list
\* handler only).
Response(name, rq, status, data) ==
    [pc |-> "done", op |-> name, sid |-> rq.sid, resource |-> rq.resource,
     param |-> rq.id, body |-> rq.body, status |-> status, data |-> data,
     count |-> 0, ids |-> <<>>]

\* The first lines of every handler: 404 without a spec, 400 without a
\* resource segment, 404 for a segment that is no declared resource, else
\* the resource and its key.
Resolve(rq) ==
    LET resourceParam == getParamAsString(rq.resource)
        found == findResource(SpecJson, resourceParam)
    IN IF resourceParam = <<>> THEN [status |-> 400]
       ELSE IF found = {} THEN [status |-> 404]
       ELSE LET resource == CHOOSE r \in found : TRUE
            IN [status |-> 0, resource |-> resource,
                resourceKey |-> normalizeKey(resource.name)]

CrudRequests(ids, bodies) ==
    [sid : CrudServiceIds, resource : ResourceParams, id : ids, body : bodies]

CrudCallInit ==
    /\ LifecycleInit
    /\ TokenInit
    /\ LimiterInit
    /\ PayloadInit
    /\ crud = CrudIdle

\* listGeneratedRecords: 200 with the rows of the pair, newest first.  The
\* response keeps, as history, the ids of the rows it was made from.
CrudList ==
    /\ crud.pc = "idle"
    /\ \E rq \in CrudRequests({<<>>}, {<<>>}) :
         LET rs == Resolve(rq)
         IN IF rs.status # 0
            THEN crud' = Response("list", rq, rs.status, <<>>)
            ELSE LET rows == OrderByIdDesc(
                                 SelectRecords(records, rq.sid, rs.resourceKey))
                     items == [i \in 1..Len(rows) |-> ResponseData(rows[i])]
                 IN crud' = [Response("list", rq, 200, items) EXCEPT
                               !.count = Len(items),
                               !.ids = [i \in 1..Len(rows) |-> rows[i].id]]
    /\ UNCHANGED <<lifecycleVars, tokenCall, limiter, buckets, windows,
                   limited, payloadCall>>

\* createGeneratedRecord: 400 for a body that is no object, 400 with the
\* violations, or INSERT and 201.  A row
\* keeps, as history, whether it was updated since its creation.
CrudCreate ==
    /\ crud.pc = "idle"
    /\ \E rq \in CrudRequests({<<>>}, Bodies) :
         LET rs == Resolve(rq)
             parsed == parsePayload(rq.body)
             payload == CHOOSE p \in parsed : TRUE
             errors == validatePayload(rs.resource,
                                       FieldValues(rs.resource, payload))
             row == [id |-> recSeq + 1, sid |-> rq.sid,
                     resource |-> rs.resourceKey,
                     payload |-> FromEntries(payload),
                     createdAt |-> now, updatedAt |-> now,
                     updated |-> FALSE]
         IN IF rs.status # 0
            THEN /\ crud' = Response("create", rq, rs.status, <<>>)
                 /\ UNCHANGED <<records, recSeq>>
            ELSE IF parsed = {}
            THEN /\ crud' = Response("create", rq, 400, <<>>)
                 /\ UNCHANGED <<records, recSeq>>
            ELSE IF errors # <<>>
            THEN /\ crud' = Response("create", rq, 400, <<>>)
                 /\ UNCHANGED <<records, recSeq>>
            ELSE /\ recSeq < CrudMaxRows
                 /\ recSeq' = recSeq + 1
                 /\ records' = records \cup {row}
                 /\ crud' = Response("create", rq, 201, ResponseData(row))
    /\ UNCHANGED <<now, services, messages, msgSeq, jobs, retained, op, wk,
                   req, failedCleanups>>
    /\ UNCHANGED <<tokenCall, limiter, buckets, windows, limited, payloadCall>>

\* getGeneratedRecordById: 404, or 200 with the row.
CrudGet ==
    /\ crud.pc = "idle"
    /\ \E rq \in CrudRequests(CrudIdParams, {<<>>}) :
         LET rs == Resolve(rq)
             rows == SelectRecord(records, rq.sid, rs.resourceKey, rq.id)
         IN IF rs.status # 0
            THEN crud' = Response("get", rq, rs.status, <<>>)
            ELSE IF rows = {}
            THEN crud' = Response("get", rq, 404, <<>>)
            ELSE crud' = Response("get", rq, 200,
                                  ResponseData(CHOOSE row \in rows : TRUE))
    /\ UNCHANGED <<lifecycleVars, tokenCall, limiter, buckets, windows,
                   limited, payloadCall>>

\* updateGeneratedRecord validating the merge in which the stored payload
\* wins, and storing the merge in which the body wins.
CrudUpdateValidatesBody ==
    /\ crud.pc = "idle"
    /\ \E rq \in CrudRequests(CrudIdParams, Bodies) :
         LET rs == Resolve(rq)
             parsed == parsePayload(rq.body)
             payload == CHOOSE p \in parsed : TRUE
             rows == SelectRecord(records, rq.sid, rs.resourceKey, rq.id)
             current == CHOOSE row \in rows : TRUE
             merged == Spread(current.payload, payload)
             errors == validatePayload(rs.resource,
                                       FieldValues(rs.resource,
                                                   Spread(payload, current.payload)))
             updated == [current EXCEPT !.payload = FromEntries(merged),
                                        !.updatedAt = now,
                                        !.updated = TRUE]
         IN IF rs.status # 0
            THEN /\ crud' = Response("update", rq, rs.status, <<>>)
                 /\ UNCHANGED records
            ELSE IF parsed = {}
            THEN /\ crud' = Response("update", rq, 400, <<>>)
                 /\ UNCHANGED records
            ELSE IF rows = {}
            THEN /\ crud' = Response("update", rq, 404, <<>>)
                 /\ UNCHANGED records
            ELSE IF errors # <<>>
            THEN /\ crud' = Response("update", rq, 400, <<>>)
                 /\ UNCHANGED records
            ELSE /\ records' = (records \ rows) \cup {updated}
                 /\ crud' = Response("update", rq, 200, ResponseData(updated))
    /\ UNCHANGED <<now, services, messages, msgSeq, recSeq, jobs, retained,
                   op, wk, req, failedCleanups>>
    /\ UNCHANGED <<tokenCall, limiter, buckets, windows, limited, payloadCall>>

\* updateGeneratedRecord: 400 for a body that is no object, 404, or the body
\* merged over the stored payload, validated (400) and stored (200).
CrudUpdate ==
    /\ crud.pc = "idle"
    /\ \E rq \in CrudRequests(CrudIdParams, Bodies) :
         LET rs == Resolve(rq)
             parsed == parsePayload(rq.body)
             payload == CHOOSE p \in parsed : TRUE
             rows == SelectRecord(records, rq.sid, rs.resourceKey, rq.id)
             current == CHOOSE row \in rows : TRUE
             merged == Spread(current.payload, payload)
             errors == validatePayload(rs.resource,
                                       FieldValues(rs.resource, merged))
             updated == [current EXCEPT !.payload = FromEntries(merged),
                                        !.updatedAt = now,
                                        !.updated = TRUE]
         IN IF rs.status # 0
            THEN /\ crud' = Response("update", rq, rs.status, <<>>)
                 /\ UNCHANGED records
            ELSE IF parsed = {}
            THEN /\ crud' = Response("update", rq, 400, <<>>)
                 /\ UNCHANGED records
            ELSE IF rows = {}
            THEN /\ crud' = Response("update", rq, 404, <<>>)
                 /\ UNCHANGED records
            ELSE IF errors # <<>>
            THEN /\ crud' = Response("update", rq, 400, <<>>)
                 /\ UNCHANGED records
            ELSE /\ records' = (records \ rows) \cup {updated}
                 /\ crud' = Response("update", rq, 200, ResponseData(updated))
    /\ UNCHANGED <<now, services, messages, msgSeq, recSeq, jobs, retained,
                   op, wk, req, failedCleanups>>
    /\ UNCHANGED <<tokenCall, limiter, buckets, windows, limited, payloadCall>>

\* deleteGeneratedRecord: 404, or DELETE ... RETURNING and 200 with the row
\* deleted.
CrudDelete ==
    /\ crud.pc = "idle"
    /\ \E rq \in CrudRequests(CrudIdParams, {<<>>}) :
         LET rs == Resolve(rq)
             after == DeleteRecord(records, rq.sid, rs.resourceKey, rq.id)
             returning == records \ after
         IN IF rs.status # 0
            THEN /\ crud' = Response("delete", rq, rs.status, <<>>)
                 /\ UNCHANGED records
            ELSE IF returning = {}
            THEN /\ crud' = Response("delete", rq, 404, <<>>)
                 /\ records' = after
            ELSE /\ records' = after
                 /\ crud' = Response("delete", rq, 200,
                              ResponseData(CHOOSE row \in returning : TRUE))
    /\ UNCHANGED <<now, services, messages, msgSeq, recSeq, jobs, retained,
                   op, wk, req, failedCleanups>>
    /\ UNCHANGED <<tokenCall, limiter, buckets, windows, limited, payloadCall>>

\* The response has been sent; the next request may arrive.
CrudEnd ==
    /\ crud.pc = "done"
    /\ crud' = CrudIdle
    /\ UNCHANGED <<lifecycleVars, tokenCall, limiter, buckets, windows,
                   limited, payloadCall>>

CrudNext ==
    \/ CrudList
    \/ CrudCreate
    \/ CrudGet
    \/ CrudUpdate
    \/ CrudDelete
    \/ CrudEnd

CrudSpec == CrudCallInit /\ [][CrudNext]_vars

\* ------------------------------------------- resource resolver on its own
\* The names resolved: every string of up to three of these characters.
KeyAlphabet == {"a", "A", "s", "S", "_", " "}

KeyNames ==
    UNION {[1..n -> KeyAlphabet] : n \in 0..3}

\* The specs resolved against: one resource; two resources with one key and
\* different fields; two resources with different keys.
KeySpecs ==
    LET title == [name |-> "title", type |-> "string", required |-> TRUE]
        count == [name |-> "count", type |-> "number", required |-> FALSE]
    IN {[resources |-> <<[name |-> <<"a">>, fields |-> <<title>>]>>],
        [resources |-> <<[name |-> <<"a">>, fields |-> <<title>>],
                         [name |-> <<"A", "s">>, fields |-> <<count>>]>>],
        [resources |-> <<[name |-> <<"s">>, fields |-> <<title>>],
                         [name |-> <<"a", " ", "S">>, fields |-> <<count>>]>>]}

KeyCallInit ==
    /\ LifecycleInit
    /\ TokenInit
    /\ LimiterInit
    /\ PayloadInit
    /\ \E spec \in KeySpecs, name \in KeyNames :
         crud = [pc |-> "call", spec |-> spec, name |-> name]

\* One call of normalizeKey and of findResource on the name.
FindResourceCall ==
    /\ crud.pc = "call"
    /\ crud' = [pc |-> "done", spec |-> crud.spec, name |-> crud.name,
                key |-> normalizeKey(crud.name),
                found |-> findResource(crud.spec, crud.name)]
    /\ UNCHANGED <<lifecycleVars, tokenCall, limiter, buckets, windows,
                   limited, payloadCall>>

KeyNext == FindResourceCall

KeySpec == KeyCallInit /\ [][KeyNext]_vars

\* ------------------------------------------------------ a failing queue
\* A call to the queue inside scheduleCleanup (getJob, remove or add) throws:
\* the catch block of the controller answers 500.  The row written before
\* the call stays as written, and so does what was done to the queue.
QueueFails ==
    /\ IF op.pc = "delay"
       THEN services[op.sid].expiresAt - now > 0
       ELSE op.pc \in {"remove", "add"}
    /\ op' = [op EXCEPT !.pc = "answered", !.code = 500]
    /\ UNCHANGED <<now, services, messages, records, msgSeq, recSeq, jobs,
                   retained, wk, req, failedCleanups>>
    /\ UNCHANGED sideVars

FailNext ==
    \/ Next
    \/ QueueFails

FailSpec == Init /\ [][FailNext]_vars

\* ------------------------------------------------ two renewals in flight
\* Two renewService calls for service 1 whose awaits interleave.  Here op is
\* the pair of the two calls; each keeps the expires_at its own UPDATE
\* returned, from which it computes its delay.
Renewals == 1..2

RaceInit ==
    /\ now = 0
    /\ services = <<[expiresAt |-> 1, status |-> "ACTIVE",
                     accessToken |-> Some(CHOOSE tok \in AccessTokens : TRUE)]>>
    /\ jobs = {[jobId |-> JobId(1), sid |-> 1, fireAt |-> 1]}
    /\ messages = {}
    /\ records = {}
    /\ msgSeq = 0
    /\ recSeq = 0
    /\ retained = {}
    /\ op = [r \in Renewals |->
                [pc |-> "idle", expiresAt |-> 0, delay |-> 0,
                 existingJob |-> FALSE, code |-> 0]]
    /\ wk = WkIdle
    /\ req = ReqIdle
    /\ failedCleanups = {}
    /\ TokenInit
    /\ LimiterInit
    /\ PayloadInit
    /\ CrudInit

\* UPDATE services SET expires_at = $1, status = 'ACTIVE' ... RETURNING
RaceUpdate(r) ==
    /\ op[r].pc = "idle"
    /\ \E t \in Ttls :
         /\ ~renewRejects(Hours(t))
         /\ services' = UpdateService(services, 1, now + t)
         /\ op' = [op EXCEPT ![r].pc = "delay", ![r].expiresAt = now + t,
                             ![r].code = 200]
    /\ UNCHANGED <<now, messages, records, msgSeq, recSeq, jobs, retained,
                   wk, req, failedCleanups>>
    /\ UNCHANGED sideVars

\* cleanupDelayMs = renewedService.expires_at - Date.now(); getJob.
RaceGetJob(r) ==
    /\ op[r].pc = "delay"
    /\ LET delay == op[r].expiresAt - now
       IN IF delay > 0
          THEN LET existingJob == getJob(jobs, JobId(1)) # {}
               IN op' = [op EXCEPT
                           ![r].pc = IF existingJob THEN "remove" ELSE "add",
                           ![r].existingJob = existingJob,
                           ![r].delay = delay]
          ELSE op' = [op EXCEPT ![r].pc = "answered"]
    /\ UNCHANGED <<now, services, messages, records, msgSeq, recSeq, jobs,
                   retained, wk, req, failedCleanups>>
    /\ UNCHANGED sideVars

RaceRemove(r) ==
    /\ op[r].pc = "remove"
    /\ jobs' = remove(jobs, JobId(1))
    /\ op' = [op EXCEPT ![r].pc = "add"]
    /\ UNCHANGED <<now, services, messages, records, msgSeq, recSeq,
                   retained, wk, req, failedCleanups>>
    /\ UNCHANGED sideVars

RaceAdd(r) ==
    /\ op[r].pc = "add"
    /\ jobs' = add(jobs, 1, op[r].delay, now)
    /\ op' = [op EXCEPT ![r].pc = "answered"]
    /\ UNCHANGED <<now, services, messages, records, msgSeq, recSeq,
                   retained, wk, req, failedCleanups>>
    /\ UNCHANGED sideVars

RaceNext ==
    \/ Tick
    \/ \E r \in Renewals : RaceUpdate(r)
    \/ \E r \in Renewals : RaceGetJob(r)
    \/ \E r \in Renewals : RaceRemove(r)
    \/ \E r \in Renewals : RaceAdd(r)

RaceSpec == RaceInit /\ [][RaceNext]_vars

\* ------------------------------------------------- two services side by side
\* Two services created at time 0, each with its cleanup job pending at its
\* expiry and with one message and one record; nothing in flight.
PairInit ==
    /\ \E e \in [1..2 -> Ttls] :
         /\ services = [s \in 1..2 |->
                           [expiresAt |-> e[s], status |-> "ACTIVE",
                            accessToken |->
                                Some(CHOOSE tok \in AccessTokens : TRUE)]]
         /\ jobs = {[jobId |-> JobId(s), sid |-> s, fireAt |-> e[s]] :
                       s \in 1..2}
    /\ now = 0
    /\ messages = {[id |-> s, sid |-> s] : s \in 1..2}
    /\ records = {[id |-> s, sid |-> s] : s \in 1..2}
    /\ msgSeq = 2
    /\ recSeq = 2
    /\ retained = {}
    /\ op = OpIdle
    /\ wk = WkIdle
    /\ req = ReqIdle
    /\ failedCleanups = {}
    /\ TokenInit
    /\ LimiterInit
    /\ PayloadInit
    /\ CrudInit

\* Renewals and cleanup runs of the two services, no other request.
PairNext ==
    \/ Tick
    \/ RenewUpdate
    \/ ScheduleGetJob
    \/ ScheduleRemove
    \/ ScheduleAdd
    \/ LifecycleEnd
    \/ WorkerPick
    \/ WorkerDeleteMessages
    \/ WorkerDeleteRecords
    \/ WorkerMarkDestroyed
    \/ WorkerFinish

PairSpec == PairInit /\ [][PairNext]_vars

\* ------------------------------------------------------- shared vocabulary
Exists(s) == s \in DOMAIN services
RowsOf(rows, s) == {r \in rows : r.sid = s}
PendingJobs(s) == {j \in jobs : j.sid = s}
Gate(s, dbOk) == validateService(ToStr(s), services, now, dbOk)

\* ------------------------------------------------------------------- C1
\* C1: DESTROYED is terminal: no step takes a service whose status is
\* DESTROYED to another status, and after every step the access gate answers
\* 410 for it.
DestroyedIsTerminal ==
    [][\A s \in DOMAIN services :
          services[s].status = "DESTROYED"
              => /\ services'[s].status = "DESTROYED"
                 /\ validateService(ToStr(s), services', now', TRUE).code = 410
      ]_vars

\* ------------------------------------------------------------------- C2
\* C2: for every existing service, when now > expiresAt the access gate
\* never calls the handler and, when its lookup succeeds, answers 410,
\* whether or not the cleanup has run.
ExpiredIsRejected ==
    \A s \in DOMAIN services :
        now > services[s].expiresAt
            => /\ Gate(s, TRUE).code = 410
               /\ \A dbOk \in BOOLEAN : ~Gate(s, dbOk).next

\* A request for an expired service was answered 410 while the service is
\* still ACTIVE, its job still pending and its rows still stored.
ExpiredIsRejectedWitness ==
    /\ req.pc = "answered" /\ req.code = 410
    /\ Exists(ToInt(req.param))
    /\ services[ToInt(req.param)].status = "ACTIVE"
    /\ now > services[ToInt(req.param)].expiresAt
    /\ PendingJobs(ToInt(req.param)) # {}
    /\ RowsOf(messages, ToInt(req.param)) # {}

\* ------------------------------------------------------------------- C3
\* C3: between lifecycle operations (none in flight), every ACTIVE service
\* whose expiresAt is in the future has exactly one pending cleanup job.
ExactlyOnePendingJob ==
    op.pc \in {"idle", "answered"}
        => \A s \in DOMAIN services :
              (services[s].status = "ACTIVE" /\ services[s].expiresAt > now)
                  => Cardinality(PendingJobs(s)) = 1

\* A renewal that replaced a pending job has just been answered.
ExactlyOnePendingJobWitness ==
    /\ op.pc = "answered" /\ op.kind = "renew" /\ op.code = 200
    /\ services[op.sid].status = "ACTIVE"
    /\ services[op.sid].expiresAt > now
    /\ op.existingJob
    /\ \E j \in PendingJobs(op.sid) : j.fireAt = services[op.sid].expiresAt

\* ------------------------------------------------------------------- C4
\* C4: no step deletes rows of a service or marks it DESTROYED while the
\* clock is before the expiresAt stored for that service.
NoStaleDestruction ==
    [][\A s \in DOMAIN services :
          (\/ services[s].status = "ACTIVE" /\ services'[s].status = "DESTROYED"
           \/ RowsOf(messages', s) # RowsOf(messages, s)
                 /\ RowsOf(messages', s) \subseteq RowsOf(messages, s)
           \/ RowsOf(records', s) # RowsOf(records, s)
                 /\ RowsOf(records', s) \subseteq RowsOf(records, s))
              => now >= services[s].expiresAt
      ]_vars
\* ------------------------------------------------------------------- C5
\* C5: a service that is not renewed and whose expiresAt has passed is
\* eventually DESTROYED with none of its messages and records left.  The
\* claim is stated for its plainest case: the cleanup job of the expired
\* service is pending and due, and no store operation of the executor fails.
Purged(s) ==
    /\ Exists(s)
    /\ services[s].status = "DESTROYED"
    /\ RowsOf(messages, s) = {}
    /\ RowsOf(records, s) = {}

EventualPurge ==
    \A s \in ServiceIds :
        (/\ Exists(s)
         /\ now > services[s].expiresAt
         /\ \E j \in PendingJobs(s) : j.fireAt <= now)
            ~> (Purged(s) \/ s \in failedCleanups)

\* ------------------------------------------------------------------- C6
\* C6: a DESTROYED service has no message row and no record row.
DestroyedHasNoRows ==
    \A s \in DOMAIN services :
        services[s].status = "DESTROYED"
            => RowsOf(messages, s) = {} /\ RowsOf(records, s) = {}

\* ------------------------------------------------------------------- C7
\* C7: on every reachable store and for every service id, the executor run
\* twice leaves the store it leaves when run once: the service DESTROYED and
\* none of its messages and records left.
ExecutorIdempotent ==
    \A s \in ServiceIds \cup {Cardinality(ServiceIds) + 1} :
        LET once == cleanupWorker(Store, s)
            twice == cleanupWorker(once, s)
        IN /\ twice = once
           /\ s \in DOMAIN services => once.services[s].status = "DESTROYED"
           /\ RowsOf(once.messages, s) = {}
           /\ RowsOf(once.records, s) = {}
           /\ DOMAIN once.services = DOMAIN services

\* The worker starts on an ACTIVE service that has messages and records.
ExecutorIdempotentWitness ==
    /\ wk.pc = "delMsgs"
    /\ services[wk.sid].status = "ACTIVE"
    /\ RowsOf(messages, wk.sid) # {}
    /\ RowsOf(records, wk.sid) # {}

\* ------------------------------------------------------------------- C8
\* C8: after a cleanup of a service has failed at any of its steps, the
\* access gate rejects every request for it once now > expiresAt, with 410
\* when its lookup succeeds.
FailedCleanupStaysRejected ==
    \A s \in failedCleanups :
        now > services[s].expiresAt
            => \A dbOk \in BOOLEAN :
                  /\ Gate(s, dbOk).code \in {410, 500}
                  /\ dbOk => Gate(s, dbOk).code = 410
                  /\ Gate(s, dbOk).attached = 0

\* A cleanup failed after deleting the messages, the service is still ACTIVE
\* with its records stored, and a request after expiry was answered 410.
FailedCleanupStaysRejectedWitness ==
    /\ req.pc = "answered" /\ req.code = 410
    /\ ToInt(req.param) \in failedCleanups
    /\ services[ToInt(req.param)].status = "ACTIVE"
    /\ now > services[ToInt(req.param)].expiresAt
    /\ RowsOf(records, ToInt(req.param)) # {}
    /\ wk.pc = "idle"

\* ------------------------------------------------------------------- C9
\* C9: when a run of the executor met a failing store operation, the runner
\* keeps its job as failed when the run ends.
FailedJobRetained ==
    [][(wk.pc = "finish" /\ wk.err /\ wk'.pc = "idle")
          => JobId(wk.sid) \in retained'
      ]_vars

\* ------------------------------------------------------------------ C10
\* C10: every request the gate decides with a working store is answered 400
\* when the segment is no numeric identifier, else 404 when no row exists,
\* else 410 when expired or DESTROYED, and else, and only then, the handler
\* runs (the request goes on to the rest of its router).  A numeric segment
\* that is no integer may count as invalid (400) or as an id without a row
\* (404).
ClaimedCodes(p) ==
    IF p = <<>> \/ ~IsNumeric(p) THEN {400}
    ELSE IF ~AllDigits(p) THEN {400, 404}
    ELSE IF ~Exists(ToInt(p)) THEN {404}
    ELSE IF now > services[ToInt(p)].expiresAt
            \/ services[ToInt(p)].status = "DESTROYED" THEN {410}
    ELSE {0}

GateOrder ==
    [][(req.pc = "idle" /\ req'.pc # "idle" /\ req'.storeOk
            /\ req'.passed # <<>>)
          => LET gateNext == Len(req'.passed) > 1 \/ req'.pc = "handler"
                 gateCode == IF gateNext THEN 0 ELSE req'.code
             IN gateCode \in ClaimedCodes(req'.param)
      ]_vars

\* ------------------------------------------------------------------ C11
\* The request carries the token tok in one of its three places.
SuppliesToken(tokens, tok) ==
    \/ tokens.header = Some(tok)
    \/ tokens.query = Some(tok)
    \/ tokens.authorization = Some(<<"B", "e", "a", "r", "e", "r", " ">> \o tok)

MessageIsAccessGatedOnly ==
    [][(/\ req.pc = "idle" /\ req'.pc # "idle" /\ req'.kind = "message"
        /\ IntCastOk(req'.param) /\ Exists(ToInt(req'.param)))
          => LET service == services[ToInt(req'.param)]
                 usable == /\ service.status = "ACTIVE"
                           /\ ~(now > service.expiresAt)
             IN /\ (usable /\ req'.storeOk)
                     => /\ req'.pc = "handler"
                        /\ req'.tokens = NoTokens
                        /\ req'.passed = <<"validateService">>
                /\ ~usable => req'.pc = "answered"
      ]_vars

\* A message handler has started for a request without tokens, at the very
\* instant the service expires.
MessageIsAccessGatedOnlyWitness ==
    /\ req.pc = "handler" /\ req.kind = "message"
    /\ req.tokens = NoTokens
    /\ services[req.attached].status = "ACTIVE"
    /\ services[req.attached].expiresAt = now

\* ------------------------------------------------------------------ C15
\* C15: a request to GET /health or GET /metrics passes no middleware of a
\* gated router and is not answered with the access gate's 400, 404 or 410.
HealthIsUngated ==
    req.kind \in {"health", "metrics"}
        => /\ req.passed = <<>>
           /\ req.code \notin {400, 404, 410}

\* ------------------------------------------------------------------ C18
\* C18: a generated handler starts only for a request that passed the rate
\* limiter after the access gate and the token gate (the condition under
\* which at most 120 requests per window and bucket reach a handler).
GeneratedIsRateLimited ==
    (req.pc = "handler" /\ req.kind = "record")
        => req.passed = <<"validateService", "requireServiceToken", "rateLimit">>

\* ------------------------------------------------------------------ C12
\* C12: the token gate answers 403 when the attached service has no stored
\* token; otherwise 401 when no candidate token was supplied or the
\* candidate differs from the stored token; otherwise it calls next().  It
\* calls next() only when the request carries the stored token, and never
\* when the request carries no token at all.
TokenGateOutcomes ==
    tokenCall.pc = "done"
        => LET stored == tokenCall.expectedToken
               candidate == tokenCall.provided
               places == {tokenCall.tokens.header, tokenCall.tokens.query,
                          tokenCall.tokens.authorization}
           IN /\ IF ~Truthy(stored)
                 THEN tokenCall.code = 403 /\ ~tokenCall.next
                 ELSE IF ~Truthy(candidate) \/ candidate.str # stored.str
                 THEN tokenCall.code = 401 /\ ~tokenCall.next
                 ELSE tokenCall.code = 0 /\ tokenCall.next
              /\ tokenCall.next
                   => \/ Trim(tokenCall.tokens.header.str) = stored.str
                      \/ Trim(tokenCall.tokens.query.str) = stored.str
                      \/ \E n \in 1..Len(tokenCall.tokens.authorization.str) :
                            SubSeq(tokenCall.tokens.authorization.str, n,
                                   Len(tokenCall.tokens.authorization.str))
                                = stored.str
              /\ (\A p \in places : ~Truthy(p)) => ~tokenCall.next

\* The gate has answered 401 to a request whose header carries a token that
\* is not the stored one, although its query parameter carries the stored
\* one.
TokenGateOutcomesWitness ==
    /\ tokenCall.pc = "done" /\ tokenCall.code = 401
    /\ Truthy(tokenCall.expectedToken)
    /\ tokenCall.provided = Some(WrongToken)
    /\ tokenCall.tokens.header = Some(WrongToken)
    /\ tokenCall.tokens.query = tokenCall.expectedToken

\* ------------------------------------------------------------------ C13
\* The candidate the claim names: the first present one of the
\* x-service-token header, the bearer token and the token query parameter.
ClaimedCandidate(tokens) ==
    IF Truthy(headerToken(tokens)) THEN headerToken(tokens)
    ELSE IF Truthy(bearerToken(tokens)) THEN bearerToken(tokens)
    ELSE queryToken(tokens)

\* C13: for every combination of values in the three places, the candidate
\* the gate compares with the stored token is the first present one in the
\* order header, bearer token, query parameter.
CandidatePriority ==
    (tokenCall.pc = "done" /\ Truthy(tokenCall.expectedToken))
        => LET claimed == ClaimedCandidate(tokenCall.tokens)
           IN /\ Truthy(tokenCall.provided) <=> Truthy(claimed)
              /\ Truthy(claimed) => tokenCall.provided.str = claimed.str

\* ------------------------------------------------------------------ C16
\* C16: for every limiter (maxRequests M >= 1, window W) and every key, the
\* first M requests of a window pass and every further request of the window
\* is answered 429; the first request after the window has elapsed passes
\* and starts a new window with count 1; so at most M requests of a key pass
\* within one window.
FixedWindowLimit ==
    /\ \A w \in windows :
          /\ w.passed = IF w.n <= limiter.maxRequests
                        THEN w.n ELSE limiter.maxRequests
          /\ w.passed <= limiter.maxRequests
    /\ limited.pc = "done"
          => LET w == get(windows, limited.key)
                 bucket == get(buckets, limited.key)
             IN /\ limited.next <=> w.n <= limiter.maxRequests
                /\ ~limited.next <=> limited.code = 429
                /\ w.n = 1 => /\ bucket.count = 1
                              /\ bucket.resetAt = w.start + limiter.windowMs

\* In its second window a key has sent one request more than the limiter
\* lets through, and that request was answered 429.
FixedWindowLimitWitness ==
    /\ limited.pc = "done" /\ limited.code = 429
    /\ get(windows, limited.key).index = 2
    /\ get(windows, limited.key).n = limiter.maxRequests + 1
    /\ limiter.maxRequests = 2

\* ------------------------------------------------------------------ C17
\* C17: every 429 answer of the rate limiter carries a Retry-After that is a
\* whole number of seconds and at least 1.
RetryAfterPositive ==
    (limited.pc = "done" /\ limited.code = 429)
        => limited.retryAfter \in Nat /\ limited.retryAfter >= 1

\* ------------------------------------------------------------------ C19
\* The declared types as the claim names them: a string, a finite number, a
\* boolean, an object that is neither null nor an array.
HasDeclaredType(value, type) ==
    \/ type = "string" /\ value = "string"
    \/ type = "number" /\ value = "number"
    \/ type = "boolean" /\ value = "boolean"
    \/ type = "object" /\ value = "object"

\* C19: for every resource and payload, a required field that is undefined
\* or null gets exactly one violation, the "required" one, and no type
\* violation; a field that is present (not undefined; null counts as a
\* value of no declared type) with a value of another type than declared
\* gets a type violation, required or optional; every other field gets
\* none; so the result is empty exactly when no declared field is violated.
ValidatePayloadContract ==
    payloadCall.pc = "done"
        => LET fields == payloadCall.resource.fields
               errors == payloadCall.errors
               Value(i) == payloadCall.payload[fields[i].name]
               About(i) == {k \in 1..Len(errors) : errors[k][1] = fields[i].name}
               Missing(i) == /\ fields[i].required
                             /\ Value(i) \in {"undefined", "null"}
               Wrong(i) == /\ ~Missing(i)
                           /\ Value(i) # "undefined"
                           /\ ~HasDeclaredType(Value(i), fields[i].type)
           IN /\ \A i \in 1..Len(fields) :
                    /\ Missing(i)
                         => /\ Cardinality(About(i)) = 1
                            /\ \A k \in About(i) :
                                  errors[k] = IsRequired(fields[i].name)
                    /\ Wrong(i)
                         => /\ Cardinality(About(i)) = 1
                            /\ \A k \in About(i) :
                                  errors[k] = MustBe(fields[i].name,
                                                     fields[i].type)
                    /\ (~Missing(i) /\ ~Wrong(i)) => About(i) = {}
              /\ errors = <<>>
                   <=> \A i \in 1..Len(fields) : ~Missing(i) /\ ~Wrong(i)

\* A required field is missing and an optional object field holds an array:
\* one violation for each.
ValidatePayloadContractWitness ==
    /\ payloadCall.pc = "done"
    /\ Len(payloadCall.resource.fields) = 2
    /\ payloadCall.resource.fields[1].required
    /\ payloadCall.payload["title"] = "undefined"
    /\ ~payloadCall.resource.fields[2].required
    /\ payloadCall.resource.fields[2].type = "object"
    /\ payloadCall.payload["metadata"] = "array"
    /\ Len(payloadCall.errors) = 2

\* ------------------------------------------------------------------ C20
\* C20: a Create whose payload passes validation answers 201 with the id of
\* the record it has just inserted, an id no earlier record has; and a Get
\* by the id of a record that was not updated since its creation answers 200
\* with every field of the created payload, unchanged.
CreateGetRoundTrip ==
    [][(crud.pc = "idle" /\ crud'.pc = "done")
          => /\ (crud'.op = "create" /\ crud'.status \notin {400, 404})
                  => /\ crud'.status = 201
                     /\ \E row \in records' \ records :
                           /\ crud'.data["id"] = Num(ToStr(row.id))
                           /\ \A old \in records : old.id # row.id
             /\ (crud'.op = "get" /\ Resolve(crud').status = 0)
                  => \A row \in SelectRecord(records, crud'.sid,
                                             Resolve(crud').resourceKey,
                                             crud'.param) :
                        ~row.updated
                            => /\ crud'.status = 200
                               /\ \A k \in DOMAIN row.payload :
                                     /\ k \in DOMAIN crud'.data
                                     /\ crud'.data[k] = row.payload[k]
      ]_vars

\* ------------------------------------------------------------------ C21
\* C21: an Update of a record that is stored under the addressed pair takes
\* as candidate the stored payload with the incoming fields laid over it
\* (an incoming field wins); with violations in the candidate the answer is
\* 400 and the store is unchanged, else the answer is 200 and the stored
\* payload of that record is the candidate, every other record unchanged.
\* An Update of a record that is not stored answers 404 and changes nothing.
UpdateValidatesMerged ==
    [][(crud.pc = "idle" /\ crud'.pc = "done" /\ crud'.op = "update"
            /\ Resolve(crud').status = 0 /\ crud'.body.kind = "object")
          => LET resource == Resolve(crud').resource
                 stored == SelectRecord(records, crud'.sid,
                                        Resolve(crud').resourceKey, crud'.param)
             IN IF stored = {}
                THEN crud'.status = 404 /\ records' = records
                ELSE \A row \in stored :
                       LET incoming == crud'.body.val
                           candidate ==
                               [k \in DOMAIN row.payload \cup DOMAIN incoming |->
                                   IF k \in DOMAIN incoming THEN incoming[k]
                                   ELSE row.payload[k]]
                           violations ==
                               validatePayload(resource,
                                               FieldValues(resource, candidate))
                       IN IF violations # <<>>
                          THEN crud'.status = 400 /\ records' = records
                          ELSE /\ crud'.status = 200
                               /\ \E new \in records' :
                                     /\ new.id = row.id
                                     /\ new.sid = row.sid
                                     /\ new.resource = row.resource
                                     /\ new.payload = candidate
                                     /\ records' \ {new} = records \ {row}
      ]_vars

\* A partial update was stored: the incoming title over a stored record that
\* keeps its other field.
UpdateValidatesMergedWitness ==
    /\ crud.pc = "done"
    /\ crud.op = "update"
    /\ crud.status = 200
    /\ crud.body = Obj([title |-> Str(<<"x">>)])
    /\ \E row \in records :
          /\ row.id = ToInt(crud.param)
          /\ row.payload = [title |-> Str(<<"x">>), id |-> Num(<<"7">>)]

\* ------------------------------------------------------------------ C22
\* The records stored under the pair (service id, resource key), and the
\* others.
InPair(rows, sid, key) == {row \in rows : row.sid = sid /\ row.resource = key}
OutOfPair(rows, sid, key) == rows \ InPair(rows, sid, key)

\* C22: a list, get, create, update or delete addressed to a pair (service
\* id, normalized resource key) leaves every record of every other pair as
\* it is, answers 200 to a get, update or delete only for an id stored under
\* the addressed pair (404 for the id of a record of another pair, 400 for
\* an update whose body is no JSON object), and lists records of the
\* addressed pair only.
CrudIsolation ==
    [][(crud.pc = "idle" /\ crud'.pc = "done")
          => IF Resolve(crud').status # 0
             THEN records' = records
             ELSE LET sid == crud'.sid
                      key == Resolve(crud').resourceKey
                      addressed == {row \in InPair(records, sid, key) :
                                       row.id = ToInt(crud'.param)}
                  IN /\ OutOfPair(records', sid, key)
                          = OutOfPair(records, sid, key)
                     /\ crud'.op \in {"get", "update", "delete"}
                          => IF addressed = {}
                             THEN IF crud'.op = "update"
                                        /\ crud'.body.kind # "object"
                                  THEN crud'.status = 400
                                  ELSE crud'.status = 404
                             ELSE crud'.status \in {200, 400}
                     /\ crud'.op = "list"
                          => \A i \in 1..Len(crud'.ids) :
                                \E row \in InPair(records, sid, key) :
                                    row.id = crud'.ids[i]
                     /\ crud'.op = "create"
                          => \A row \in records' \ records :
                                row.sid = sid /\ row.resource = key
      ]_vars

\* A get by the id of a record of another service answered 404.
CrudIsolationWitness ==
    /\ crud.pc = "done"
    /\ crud.op = "get"
    /\ crud.status = 404
    /\ \E row \in records :
          /\ row.id = ToInt(crud.param)
          /\ row.sid # crud.sid
          /\ row.resource = normalizeKey(crud.resource)

\* ------------------------------------------------------------------ C23
\* The ids handed out to records that are no longer stored: the deleted ones.
DeletedIds == {i \in 1..recSeq : \A row \in records : row.id # i}

\* C23: a Delete of a record stored under the addressed pair answers 200
\* with the representation of that record and removes that record and no
\* other; a Delete of a record that is not stored answers 404 and leaves the
\* store unchanged; a later Get by the id of a deleted record answers 404,
\* and a later List does not contain it.
DeleteRemovesExactlyOne ==
    [][(crud.pc = "idle" /\ crud'.pc = "done" /\ Resolve(crud').status = 0)
          => LET addressed == {row \in InPair(records, crud'.sid,
                                              Resolve(crud').resourceKey) :
                                  row.id = ToInt(crud'.param)}
             IN /\ crud'.op = "delete"
                     => IF addressed = {}
                        THEN crud'.status = 404 /\ records' = records
                        ELSE \A row \in addressed :
                                /\ crud'.status = 200
                                /\ crud'.data = ResponseData(row)
                                /\ records' = records \ {row}
                /\ (crud'.op = "get" /\ ToInt(crud'.param) \in DeletedIds)
                     => crud'.status = 404
                /\ crud'.op = "list"
                     => \A i \in 1..Len(crud'.ids) :
                           crud'.ids[i] \notin DeletedIds
      ]_vars

\* A Get by the id of a deleted record answered 404 while another record of
\* the same pair is still stored.
DeleteRemovesExactlyOneWitness ==
    /\ crud.pc = "done"
    /\ crud.op = "get"
    /\ crud.status = 404
    /\ ToInt(crud.param) \in DeletedIds
    /\ InPair(records, crud.sid, normalizeKey(crud.resource)) # {}

\* ------------------------------------------------------------------ C24
\* C24: a List answers 200 with one item for every record stored under the
\* addressed pair and for no other record, in descending order of the record
\* ids, each item the representation of its record, and with count the
\* number of items; a record that a Create has just stored is stored under
\* the pair the Create addressed, so the next List of that pair contains it.
ListIsComplete ==
    [][(crud.pc = "idle" /\ crud'.pc = "done" /\ Resolve(crud').status = 0)
          => LET pair == InPair(records, crud'.sid, Resolve(crud').resourceKey)
             IN /\ crud'.op = "list"
                     => /\ crud'.status = 200
                        /\ {crud'.ids[i] : i \in 1..Len(crud'.ids)}
                              = {row.id : row \in pair}
                        /\ \A i \in 1..Len(crud'.ids), j \in 1..Len(crud'.ids) :
                              i < j => crud'.ids[i] > crud'.ids[j]
                        /\ Len(crud'.data) = Len(crud'.ids)
                        /\ \A i \in 1..Len(crud'.ids) :
                              \E row \in pair :
                                 /\ row.id = crud'.ids[i]
                                 /\ crud'.data[i] = ResponseData(row)
                        /\ crud'.count = Len(crud'.data)
                /\ (crud'.op = "create" /\ crud'.status = 201)
                     => \E row \in records' \ records :
                           row \in InPair(records', crud'.sid,
                                          Resolve(crud').resourceKey)
      ]_vars

\* A List answered two records of its pair, the later one first.
ListIsCompleteWitness ==
    /\ crud.pc = "done"
    /\ crud.op = "list"
    /\ crud.status = 200
    /\ crud.count = 2
    /\ crud.ids = <<2, 1>>

\* ------------------------------------------------------------------ C25
\* ttlHours is a number within the allowed range, 1 minute to 48 hours.
TtlInRange(ttlHours) ==
    /\ ttlHours.kind = "number"
    /\ ttlHours.minutes >= MinTtlMinutes
    /\ ttlHours.minutes <= MaxTtlMinutes

\* C25: a createService whose name has fewer than 3 characters or whose
\* ttlHours is not within the allowed range answers 400, and no step of that
\* call stores a service or changes the cleanup queue.
CreateRejectsInvalid ==
    [][/\ (op.pc = "idle" /\ op'.kind = "create"
              /\ (Len(op'.body.name) < 3 \/ ~TtlInRange(op'.body.ttlHours)))
            => /\ op'.code = 400
               /\ op'.pc = "answered"
       /\ (op' # op /\ op.kind # "renew" /\ op'.kind # "renew"
              /\ 400 \in {op.code, op'.code})
            => /\ services' = services
               /\ jobs' = jobs
      ]_vars

\* A createService with a ttlHours above 48 hours was answered 400.
CreateRejectsInvalidWitness ==
    /\ op.kind = "create"
    /\ op.pc = "answered"
    /\ op.code = 400
    /\ op.body.ttlHours = Hours(MaxTtlMinutes + 1)

\* ------------------------------------------------------------------ C26
\* C26: a createService that is accepted stores the service
\* ACTIVE with expiresAt = now + ttl, and when it answers 201 the queue holds
\* a job of that service whose fire time is that expiresAt.
CreateSchedulesAtExpiry ==
    [][/\ (op.pc = "idle" /\ op'.kind = "create" /\ op'.code = 201)
            => /\ op'.sid \notin DOMAIN services
               /\ services'[op'.sid].status = "ACTIVE"
               /\ services'[op'.sid].expiresAt = now + op'.body.ttlHours.minutes
       /\ (op.kind = "create" /\ op.code = 201 /\ op.pc # "answered"
              /\ op'.pc = "answered")
            => \E j \in jobs' :
                  /\ j.sid = op.sid
                  /\ j.fireAt = services'[op.sid].expiresAt
      ]_vars

\* ------------------------------------------------------------------ C27
\* C27: once renewService has answered 200 for a service, the Access Gate
\* passes the requests for that service as long as the expiresAt the renewal
\* stored is still ahead.
RenewedIsServed ==
    (op.kind = "renew" /\ op.pc = "answered" /\ op.code = 200
        /\ now < services[op.sid].expiresAt)
      => Gate(op.sid, TRUE).next

\* ------------------------------------------------------------------ C28
\* C28: a renewService with an accepted ttlHours for a service id that is
\* not stored answers 404, and no step of that call stores a service,
\* changes a stored one, or adds or removes a cleanup job.
RenewUnknownIsNotFound ==
    [][/\ (op.pc = "idle" /\ op'.kind = "renew" /\ op'.code # 400
              /\ op'.sid \notin DOMAIN services)
            => /\ op'.code = 404
               /\ op'.pc = "answered"
       /\ (op' # op /\ op.kind # "create" /\ op'.kind # "create"
              /\ 404 \in {op.code, op'.code})
            => /\ services' = services
               /\ jobs' = jobs
      ]_vars

\* A renewService for an id that is not stored was answered 404 while
\* another service is stored and has its cleanup job pending.
RenewUnknownIsNotFoundWitness ==
    /\ op.kind = "renew"
    /\ op.pc = "answered"
    /\ op.code = 404
    /\ op.sid \notin DOMAIN services
    /\ services # <<>>
    /\ jobs # {}

\* ------------------------------------------------------------------ C29
\* C29: renewService accepts a ttlHours exactly when createService accepts
\* it (a number from 1 minute to 48 hours), and a renewal with a rejected
\* ttlHours answers 400 and leaves the services and the queue as they are.
RenewValidatesLikeCreate ==
    [][(op.pc = "idle" /\ op'.kind = "renew")
          => /\ op'.code # 400 <=> TtlInRange(op'.body.ttlHours)
             /\ op'.code = 400
                  => /\ op'.pc = "answered"
                     /\ services' = services
                     /\ jobs' = jobs
      ]_vars

\* ------------------------------------------------------------------ C30
\* C30: no step changes the access token of a stored service or removes the
\* service: the token stored by createService is the token ever after,
\* through renewals, cleanup and requests.
AccessTokenIsFixed ==
    [][\A s \in DOMAIN services :
          /\ s \in DOMAIN services'
          /\ services'[s].accessToken = services[s].accessToken
      ]_vars

\* A renewal has stored its new expiry and answered, and the token of the
\* service is the one drawn at its creation.
AccessTokenIsFixedWitness ==
    /\ op.kind = "renew"
    /\ op.code = 200
    /\ op.pc = "answered"
    /\ services[op.sid].status = "ACTIVE"
    /\ services[op.sid].accessToken \in {Some(tok) : tok \in AccessTokens}

\* ------------------------------------------------------------------ C31
\* C31: no cleanup job is enqueued with a delay of zero or less: when the
\* delay computed by createService or renewService (expiresAt - now) is not
\* positive, the call answers without a queue call and leaves the queue as
\* it is; every queue call made carries a positive delay and every job
\* added fires after the moment it is added.
NoJobWithoutDelay ==
    [][/\ (op.pc = "delay" /\ op' # op
              /\ services[op.sid].expiresAt - now <= 0)
            => /\ op'.pc = "answered"
               /\ jobs' = jobs
       /\ (op' # op /\ op'.pc \in {"remove", "add"}) => op'.delay > 0
       /\ \A job \in jobs' \ jobs :
             /\ op.pc = "add"
             /\ op.delay > 0
             /\ job.fireAt > now
      ]_vars

\* A renewal whose new expiry was already reached when the delay was
\* computed has answered 200 without a queue call, and the job pending
\* before it is still the pending one.
NoJobWithoutDelayWitness ==
    /\ op.kind = "renew"
    /\ op.pc = "answered"
    /\ op.code = 200
    /\ op.delay = 0
    /\ services[op.sid].expiresAt <= now
    /\ PendingJobs(op.sid) # {}

\* ------------------------------------------------------------------ C36
\* C36: the access gate fails closed: a request whose path names a service
\* by a number and whose store lookup in validateService fails is answered
\* 500 by the gate itself, with no service attached, no later middleware
\* run and no handler run (no message and no record is inserted for it).
GateFailsClosed ==
    [][(/\ req'.pc # "idle"
        /\ req'.router \in {"generated", "message"}
        /\ req'.param # <<>>
        /\ IsNumeric(req'.param)
        /\ ~req'.storeOk)
          => /\ req'.pc = "answered"
             /\ req'.code = 500
             /\ req'.attached = 0
             /\ req'.passed = <<"validateService">>
             /\ msgSeq' = msgSeq
             /\ recSeq' = recSeq
      ]_vars

\* A request to the generated API that carries the bearer token of an
\* ACTIVE, unexpired service was answered 500 because the lookup failed.
GateFailsClosedWitness ==
    /\ req.pc = "answered"
    /\ req.code = 500
    /\ ~req.storeOk
    /\ IsNumeric(req.param)
    /\ IntCastOk(req.param)
    /\ Gate(ToInt(req.param), TRUE).next
    /\ req.router = "generated"
    /\ req.tokens.authorization # Null

\* ------------------------------------------------------------------ C37
\* C37: a request through the rate limiter for the key k of its client and
\* route changes no bucket but the one of k, and its outcome is the one the
\* limiter gives when the bucket of k is the only bucket there is; a request
\* answered 429 changes no bucket at all.
LimiterFrame ==
    [][windows' # windows
          => LET k == limited'.key
                 own == {e \in buckets : e.key = k}
                 alone == rateLimiter(limiter, own, now, k)
             IN /\ {e \in buckets' : e.key # k} = {e \in buckets : e.key # k}
                /\ limited'.code = alone.code
                /\ limited'.next = alone.next
                /\ limited'.retryAfter = alone.retryAfter
                /\ {e \in buckets' : e.key = k} = alone.buckets
                /\ limited'.code = 429 => buckets' = buckets
      ]_vars

\* A request was answered 429 while another key has a bucket with room
\* left in its window.
LimiterFrameWitness ==
    /\ limited.pc = "done"
    /\ limited.code = 429
    /\ \E e \in buckets :
          /\ e.key # limited.key
          /\ e.count < limiter.maxRequests
          /\ now <= e.resetAt

\* ------------------------------------------------------------------ C34
\* C34: every stored record satisfies its schema: the key it is stored
\* under is the key of a declared resource, and validatePayload of that
\* resource on the stored payload returns no violation, whatever creates
\* and updates were made.
StoredRecordsValid ==
    \A row \in records :
       LET found == findResource(SpecJson, row.resource)
       IN /\ found # {}
          /\ \A resource \in found :
                /\ normalizeKey(resource.name) = row.resource
                /\ validatePayload(resource,
                                   FieldValues(resource, row.payload)) = <<>>

\* A record whose payload is the merge of an update is stored next to a
\* record kept as it was created.
StoredRecordsValidWitness ==
    /\ \E row \in records :
          /\ row.updated
          /\ row.payload = [title |-> Str(<<"x">>), id |-> Num(<<"7">>)]
    /\ \E row \in records : ~row.updated

\* ------------------------------------------------------------------ C35
\* C35: a rejected request leaves the record store as it is: a request of
\* any of the five operations whose resource segment is no declared
\* resource answers 404, a Create or Update for a declared resource whose
\* body is not a JSON object answers 400, and a request answered 400 or 404
\* inserts, modifies and deletes no record.
RejectedChangesNothing ==
    [][(crud.pc = "idle" /\ crud'.pc = "done")
          => LET resourceParam == getParamAsString(crud'.resource)
                 found == findResource(SpecJson, resourceParam)
             IN /\ (resourceParam # <<>> /\ found = {})
                     => crud'.status = 404
                /\ (/\ resourceParam # <<>>
                    /\ found # {}
                    /\ crud'.op \in {"create", "update"}
                    /\ crud'.body.kind # "object")
                     => crud'.status = 400
                /\ crud'.status \in {400, 404}
                     => /\ records' = records
                        /\ recSeq' = recSeq
      ]_vars

\* An Update whose body is a JSON array was answered 400 although the
\* record it addresses is stored.
RejectedChangesNothingWitness ==
    /\ crud.pc = "done"
    /\ crud.op = "update"
    /\ crud.status = 400
    /\ crud.body.kind = "array"
    /\ Resolve(crud).status = 0
    /\ SelectRecord(records, crud.sid, Resolve(crud).resourceKey,
                    crud.param) # {}

\* ------------------------------------------------------------------ C38
\* C38: a step of the cleanup executor running for service s leaves the
\* messages, the records and the row of every other service as they are,
\* and leaves the expiresAt and the access token of s as they are.
ExecutorFrame ==
    [][(wk' # wk /\ wk.pc # "idle")
          => LET s == wk.sid
             IN /\ DOMAIN services' = DOMAIN services
                /\ \A t \in DOMAIN services \ {s} :
                      services'[t] = services[t]
                /\ {m \in messages' : m.sid # s} = {m \in messages : m.sid # s}
                /\ {r \in records' : r.sid # s} = {r \in records : r.sid # s}
                /\ messages' \subseteq messages
                /\ records' \subseteq records
                /\ services'[s].expiresAt = services[s].expiresAt
                /\ services'[s].accessToken = services[s].accessToken
      ]_vars

\* The executor has run through for one service, whose rows are gone and
\* whose status is DESTROYED, while the other service is ACTIVE and has its
\* message and its record.
ExecutorFrameWitness ==
    /\ wk.pc = "finish"
    /\ ~wk.err
    /\ services[wk.sid].status = "DESTROYED"
    /\ RowsOf(messages, wk.sid) = {}
    /\ RowsOf(records, wk.sid) = {}
    /\ \E t \in DOMAIN services \ {wk.sid} :
          /\ services[t].status = "ACTIVE"
          /\ RowsOf(messages, t) # {}
          /\ RowsOf(records, t) # {}

\* ------------------------------------------------------------------ C40
\* No two of the service ids 1..12 have the same job id.
JobIdInjective == \A s, t \in 1..12 : JobId(s) = JobId(t) => s = t

\* C40: the cleanup job id is a function of the service id alone and two
\* service ids never share one; a step of scheduleCleanup for service s
\* removes and adds no job but the job of s: the pending job of every other
\* service is left as it is, and a job added carries the id and the service
\* id of s.
JobIdFrame ==
    [][/\ JobIdInjective
       /\ (op' # op /\ op.pc \in {"delay", "remove", "add"})
            => /\ \A job \in jobs : job.sid # op.sid => job \in jobs'
               /\ \A job \in jobs' \ jobs :
                     /\ job.sid = op.sid
                     /\ job.jobId = JobId(op.sid)
               /\ \A job \in jobs \ jobs' : job.jobId = JobId(op.sid)
      ]_vars

\* A renewal has removed the pending job of its service and added the new
\* one, and the job of the other service is pending as it was created.
JobIdFrameWitness ==
    /\ op.kind = "renew"
    /\ op.pc = "answered"
    /\ op.code = 200
    /\ op.existingJob
    /\ \E job \in PendingJobs(op.sid) : job.fireAt = now + op.delay
    /\ \E t \in DOMAIN services \ {op.sid} :
          \E job \in PendingJobs(t) :
             /\ job.jobId = JobId(t)
             /\ job.fireAt = services[t].expiresAt

\* ------------------------------------------------------------------ C33
\* C33: when a queue call fails inside createService or renewService after
\* the service row was written, and the request has been answered 500, the
\* service of that request is not ACTIVE with an expiry still ahead and no
\* pending cleanup job.
QueueFailureLeavesNoOrphan ==
    (op.pc = "answered" /\ op.code = 500)
      => ~(/\ services[op.sid].status = "ACTIVE"
           /\ services[op.sid].expiresAt > now
           /\ PendingJobs(op.sid) = {})

\* ------------------------------------------------------------------ C32
\* C32: when two overlapping renewals of one service have both rescheduled
\* the cleanup and answered, the queue holds at most one pending job for the
\* service, and that job does not fire before the expiresAt stored on the
\* service row.
ConcurrentRenewalsOneJob ==
    (\A r \in Renewals : op[r].pc = "answered" /\ op[r].delay > 0)
      => /\ Cardinality(PendingJobs(1)) <= 1
         /\ \A job \in PendingJobs(1) : job.fireAt >= services[1].expiresAt

\* ------------------------------------------------------------------ C39
\* The resources of the spec of the call whose key is the key of the name.
KeyHits ==
    {i \in 1..Len(crud.spec.resources) :
        normalizeKey(crud.spec.resources[i].name) = crud.key}

\* C39 as stated: normalizeKey is idempotent, a name without a letter or
\* digit has the default key, and findResource returns a declared resource
\* exactly when the key of that resource is the key of the name: every
\* declared resource with that key is the one returned, and nothing is
\* returned when no resource has it.
ResourceLookupEveryMatch ==
    crud.pc = "done"
      => /\ normalizeKey(crud.key) = crud.key
         /\ KeyHits = {} <=> crud.found = {}
         /\ \A i \in 1..Len(crud.spec.resources) :
               crud.found = {crud.spec.resources[i]} <=> i \in KeyHits

\* C39 amended: normalizeKey is idempotent, a name without a letter or
\* digit has the default key, and findResource returns the last declared
\* resource whose key is the key of the name, and not-found exactly when no
\* declared resource has that key.
ResourceLookup ==
    crud.pc = "done"
      => /\ normalizeKey(crud.key) = crud.key
         /\ (\A i \in 1..Len(crud.name) :
                toLowerCase(<<crud.name[i]>>)[1] \notin AlphaNumeric)
              => crud.key = DefaultKey
         /\ KeyHits = {} <=> crud.found = {}
         /\ \A i \in KeyHits :
               (\A j \in KeyHits : j <= i)
                 => crud.found = {crud.spec.resources[i]}

\* A name that is not the name of any declared resource was resolved to the
\* second of two resources that have its key.
ResourceLookupWitness ==
    /\ crud.pc = "done"
    /\ Cardinality(KeyHits) = 2
    /\ crud.found = {crud.spec.resources[2]}
    /\ \A i \in KeyHits : crud.spec.resources[i].name # crud.name
    /\ crud.key # crud.name
====
